---- MODULE Spec2Model ----
(***************************************************************************)
(* Model of pt_device_monitor: the session client (api_client.go), the     *)
(* polling scheduler (Scheduler), the display's retained snapshot          *)
(* (DisplayManager.Render) and the process wiring in main.go.              *)
(***************************************************************************)
EXTENDS Integers, Sequences, FiniteSets, TLC

\* ---------------------------------------------------------------- bounds
\* number of fetchData goroutines that may be alive at the same time
MaxTasks == 2

\* number of devices in a device list that is grouped
MaxDevices == 3

\* the widest terminal a row is drawn on
MaxTermWidth == 122

\* number of pieces (characters, escape sequences) a cell text is made of,
\* and the largest column width it is cut to
MaxTokens == 3
MaxWidth == 6

\* number of logical-device groups in a view that is drawn
MaxGroups == 3

\* ------------------------------------------------------ program constants
\* FetchDevicesWithRetry(2) in Scheduler.fetchData
MaxRetries == 2
\* http.StatusOK, http.StatusUnauthorized
StatusOK == 200
StatusUnauthorized == 401

\* ------------------------------------------------------------ input sets
Tasks == 1..MaxTasks
\* device lists the server may return (opaque payload identities): to
\* RunOnce, and to the polling program
AllPayloads == {"listA", "listB"}
\* a value time.Now() may return when a list is grouped
PolledTimes == {"t1"}

None == "none"

VARIABLES
    authenticated,  \* APIClient.authenticated
    authCookie,     \* APIClient.authCookie # nil
    healthy,        \* the server answers every request successfully from now on
    task,           \* the fetchData goroutines, by slot
    ctxDone,        \* Scheduler.ctx has been cancelled
    running,        \* Scheduler.running
    ticker,         \* Scheduler.ticker: "nil", "armed", "stopped"
    dataChannel,    \* Scheduler.dataChannel: the buffered messages (capacity 1)
    errorChannel,   \* Scheduler.errorChannel: the buffered messages (capacity 1)
    channelsClosed, \* cleanup has closed both channels
    lastData,       \* DisplayManager.lastData
    errorMessage,   \* DisplayManager.errorMessage
    screen,         \* what the last Render drew
    altScreen,      \* the terminal is in the alternate (full-screen) buffer
    mainPc,         \* position of the main goroutine
    hist            \* observations of the run (no program state)

vars == <<authenticated, authCookie, healthy, task, ctxDone, running, ticker,
          dataChannel, errorChannel, channelsClosed,
          lastData, errorMessage, screen, altScreen, mainPc, hist>>

clientVars == <<authenticated, authCookie>>
schedVars == <<ctxDone, running, ticker, channelsClosed>>
chanVars == <<dataChannel, errorChannel>>
displayVars == <<lastData, errorMessage, screen, altScreen>>

\* ------------------------------------------------------------ error values
\* A Go error: api = its dynamic type is *APIError (what err.(*APIError)
\* tests), status = the status code carried by the APIError in its chain
\* (0: none), stage = the message prefix that tells where it was produced.
Err(api, status, stage) == [api |-> api, status |-> status, stage |-> stage]
NoErr == Err(FALSE, 0, "nil")

\* APIError.Error / the APIError literals of makeDevicesRequest
APIError(status) == Err(TRUE, status, "api")
\* fmt.Errorf("...: %w", err): the result is a *fmt.wrapError, not an *APIError
Wrap(stage, err) == Err(FALSE, err.status, stage)
\* client.Do failed (timeout, connection refused, DNS)
TransportErr(stage) == Err(FALSE, 0, stage)

IsClientError(status) == status >= 400 /\ status < 500

\* ------------------------------------------------------------ the server
\* the runs in which the server may give any answer: Scheduler.RunOnce and
\* the methods of APIClient called one after the other
AnyAnswer == mainPc \in {"runOnce", "client"}

Payloads == IF AnyAnswer THEN AllPayloads ELSE {"listA"}

\* the status codes the server may answer a device request with; the polled
\* server of the whole program answers with the list or "session expired"
DeviceAnswers ==
    IF healthy THEN {[kind |-> "http", status |-> StatusOK]}
    ELSE IF AnyAnswer
    THEN {[kind |-> "http", status |-> s] : s \in {200, 401, 404, 503}}
         \cup {[kind |-> "transport", status |-> 0]}
    ELSE {[kind |-> "http", status |-> s] : s \in {200, 401}}

\* the status codes the server may answer a login with; the polled server
\* gives the session cookie or no answer at all.
\* cookie: the response carries an "Authorization"/"Autorization" cookie
LoginAnswers ==
    IF healthy THEN {[kind |-> "http", status |-> StatusOK, cookie |-> TRUE]}
    ELSE IF AnyAnswer
    THEN {[kind |-> "http", status |-> s, cookie |-> (s = StatusOK)]
             : s \in {200, 403, 503}}
         \cup {[kind |-> "http", status |-> StatusOK, cookie |-> FALSE],
               [kind |-> "transport", status |-> 0, cookie |-> FALSE]}
    ELSE {[kind |-> "http", status |-> s, cookie |-> (s = StatusOK)]
             : s \in {200}}
         \cup {[kind |-> "transport", status |-> 0, cookie |-> FALSE]}

\* ------------------------------------------------- the fetchData goroutines
\* pc: where the goroutine stands; attempt, lastErr: FetchDevicesWithRetry's
\* loop variable and lastErr; result: what FetchDevicesWithRetry returned;
\* calls, waits, trace, transientOnly, clientErrAt, clientErrCalls: what the
\* goroutine did (calls of FetchDevices, sleeps, requests of the latest
\* FetchDevices call, kinds of failure met).  The record of a goroutine that
\* has ended is dropped.
\* FetchDevicesWithRetry has not returned
NoResult == [ok |-> FALSE, response |-> None, err |-> NoErr]

IdleTask ==
    [pc |-> "idle", attempt |-> 0, lastErr |-> NoErr, result |-> NoResult,
     calls |-> 0, waits |-> <<>>, trace |-> <<>>, transientOnly |-> TRUE,
     clientErrAt |-> None, clientErrCalls |-> 0]

\* a goroutine started by "go s.fetchData()"
NewTask == [IdleTask EXCEPT !.pc = "fetchData"]

\* the process is alive: goroutines run only until main returns or a panic
Alive == mainPc \notin {"exited", "fatal", "panicked"}

\* a slot is free when no goroutine runs in it
FreeSlot(t) == task[t].pc = "idle"

\* fetchData: select { case <-s.ctx.Done(): return; default: ... }
FetchDataEnter(t) ==
    /\ Alive
    /\ task[t].pc = "fetchData"
    /\ task' = [task EXCEPT ![t] = IF ctxDone THEN IdleTask
                                    ELSE [@ EXCEPT !.pc = "retry"]]
    /\ UNCHANGED <<clientVars, healthy, schedVars, chanVars, displayVars, mainPc, hist>>

\* makeDevicesRequest: the (response, error) pair for one server answer
RequestResult(ans, payload) ==
    IF ans.kind = "transport" THEN [response |-> None, err |-> TransportErr("request")]
    ELSE IF ans.status = StatusUnauthorized
         THEN [response |-> None, err |-> APIError(StatusUnauthorized)]
    ELSE IF ans.status # StatusOK THEN [response |-> None, err |-> APIError(ans.status)]
    ELSE [response |-> payload, err |-> NoErr]

\* a Login whose cookie loop stores the cookie but not the authenticated flag
LoginKeepsFlag(ans) ==
    IF ans.kind = "transport"
    THEN [err |-> TransportErr("login"), cookie |-> authCookie, auth |-> authenticated]
    ELSE IF ans.status # StatusOK
    THEN [err |-> APIError(ans.status), cookie |-> authCookie, auth |-> authenticated]
    ELSE [err |-> NoErr, cookie |-> authCookie \/ ans.cookie, auth |-> authenticated]

\* a Login that marks the session authenticated on every 200
LoginMarksAlways(ans) ==
    IF ans.kind = "transport"
    THEN [err |-> TransportErr("login"), cookie |-> authCookie, auth |-> authenticated]
    ELSE IF ans.status # StatusOK
    THEN [err |-> APIError(ans.status), cookie |-> authCookie, auth |-> authenticated]
    ELSE [err |-> NoErr, cookie |-> authCookie \/ ans.cookie, auth |-> TRUE]

\* Login up to the end of its cookie loop: the error it returns for a failed
\* or non-200 exchange, else NoErr with the session fields possibly written
LoginExchange(ans) ==
    IF ans.kind = "transport"
    THEN [err |-> TransportErr("login"), cookie |-> authCookie, auth |-> authenticated]
    ELSE IF ans.status # StatusOK
    THEN [err |-> APIError(ans.status), cookie |-> authCookie, auth |-> authenticated]
    ELSE IF ans.cookie
    THEN [err |-> NoErr, cookie |-> TRUE, auth |-> TRUE]
    ELSE [err |-> NoErr, cookie |-> authCookie, auth |-> authenticated]

\* Login's final test: if !ac.authenticated { return error }
LoginVerdict(auth) == IF auth THEN NoErr ELSE Err(FALSE, 0, "no cookie")

\* a retry loop that stops one attempt early: "attempt < maxRetries"
LoopStopsEarly(attempt) == attempt < MaxRetries

\* FetchDevicesWithRetry: the loop condition "attempt <= maxRetries"
LoopContinues(attempt) == attempt <= MaxRetries

\* FetchDevicesWithRetry: err.(*APIError) with a status in 400..499 ends the loop
ShouldBreak(err) == err.api /\ IsClientError(err.status)

\* fmt.Errorf("failed after %d attempts: %w", maxRetries+1, lastErr)
NamedAttempts == MaxRetries + 1
FinalErr(lastErr) == Wrap("failed after attempts", lastErr)

\* the stage of FetchDevices at which a client-error status (400..499 other
\* than 401) made it fail, None if the error is no such failure
ClientErrStage(err) ==
    IF ~(IsClientError(err.status) /\ err.status # StatusUnauthorized) THEN None
    ELSE IF err.api THEN "first"
    ELSE IF err.stage = "re-authenticate" THEN "relogin"
    ELSE "retried"

\* a failure of FetchDevices with a 5xx APIError or a transport error
IsTransient(err) ==
    \/ err.api /\ err.status >= 500
    \/ ~err.api /\ err.stage = "request"

\* FetchDevicesWithRetry after FetchDevices returned (response, e) to the
\* goroutine in state tk: return the response, or note lastErr and break,
\* go round the loop again or leave it with the final error
AfterFetch(tk, response, e) ==
    LET next == tk.attempt + 1
        stage == ClientErrStage(e)
        over == ShouldBreak(e) \/ ~LoopContinues(next)
    IN IF e = NoErr
       THEN [tk EXCEPT !.result = [ok |-> TRUE, response |-> response, err |-> NoErr],
                       !.pc = "deliver"]
       ELSE [tk EXCEPT !.lastErr = e,
                       !.transientOnly = @ /\ IsTransient(e),
                       !.clientErrAt = IF @ = None THEN stage ELSE @,
                       !.clientErrCalls = IF tk.clientErrAt = None /\ stage # None
                                          THEN tk.calls ELSE @,
                       !.attempt = IF ShouldBreak(e) THEN @ ELSE next,
                       !.result = IF over
                                  THEN [ok |-> FALSE, response |-> None, err |-> FinalErr(e)]
                                  ELSE NoResult,
                       !.pc = IF over THEN "deliver" ELSE "retry"]

\* one request of FetchDevices, as the goroutine's record keeps it
Sent(op, ans) ==
    [op |-> op, kind |-> ans.kind, status |-> ans.status,
     cookie |-> (op = "login" /\ ans.cookie)]

\* goroutine u is inside the re-login of FetchDevices: ac.authenticated was
\* cleared by its 401 and its Login has not returned
InRelogin(u) == task[u].pc \in {"login", "loginCheck"}

\* the observations after goroutine t met the "not authenticated" guard: every
\* other goroutine inside its re-login has been overlapped by a failed call
NoteUnauth(h, t) ==
    [h EXCEPT !.sawUnauth = @ \cup {u \in Tasks \ {t} : InRelogin(u)}]

\* the observations when the re-login window of goroutine t opens or closes
NoteWindow(h, t) == [h EXCEPT !.sawUnauth = @ \ {t}]

\* a FetchDevices without its "not authenticated" guard
Unguarded(auth) == FALSE

\* FetchDevices: if !ac.authenticated { return nil, error }
NotAuthenticated(auth) == ~auth

\* a Sleep of one second before every retry
BackoffConstant(waits, attempt) ==
    IF attempt > 0 THEN Append(waits, 1) ELSE waits

\* FetchDevicesWithRetry: if attempt > 0 { time.Sleep(attempt * time.Second) };
\* waits: the sleeps of the call so far, in seconds
Backoff(waits, attempt) ==
    IF attempt > 0 THEN Append(waits, attempt) ELSE waits

\* FetchDevicesWithRetry: one pass of the loop body up to the first answer:
\* the backoff sleep, FetchDevices with its "not authenticated" guard and
\* its first makeDevicesRequest; a 401 clears ac.authenticated
FetchDevicesCall(t) ==
    /\ Alive
    /\ task[t].pc = "retry"
    /\ LET a == task[t].attempt
           tk == [task[t] EXCEPT
                    !.waits = Backoff(@, a),
                    !.calls = @ + 1,
                    !.trace = <<>>]
       IN IF NotAuthenticated(authenticated)
          THEN /\ task' = [task EXCEPT ![t] =
                             AfterFetch(tk, None, Err(FALSE, 0, "not authenticated"))]
               /\ hist' = NoteUnauth(hist, t)
               /\ UNCHANGED authenticated
          ELSE \E ans \in DeviceAnswers, payload \in Payloads :
                 LET r == RequestResult(ans, payload)
                     tr == [tk EXCEPT !.trace = Append(@, Sent("devices", ans))]
                 IN IF r.err # NoErr /\ r.err.api /\ r.err.status = StatusUnauthorized
                    THEN /\ authenticated' = FALSE
                         /\ task' = [task EXCEPT ![t] = [tr EXCEPT !.pc = "login"]]
                         /\ hist' = NoteWindow(hist, t)
                    ELSE /\ task' = [task EXCEPT ![t] = AfterFetch(tr, r.response, r.err)]
                         /\ UNCHANGED <<authenticated, hist>>
    /\ UNCHANGED <<authCookie, healthy, schedVars, chanVars, displayVars, mainPc>>

\* FetchDevices: the re-login (Login's request and cookie loop)
Relogin(t) ==
    /\ Alive
    /\ task[t].pc = "login"
    /\ \E ans \in LoginAnswers :
         LET x == LoginExchange(ans)
             tr == [task[t] EXCEPT !.trace = Append(@, Sent("login", ans))]
         IN /\ authCookie' = x.cookie
            /\ authenticated' = x.auth
            /\ task' = [task EXCEPT ![t] =
                          IF x.err # NoErr
                          THEN AfterFetch(tr, None, Wrap("re-authenticate", x.err))
                          ELSE [tr EXCEPT !.pc = "loginCheck"]]
            /\ hist' = IF x.err # NoErr
                       THEN [NoteWindow(hist, t) EXCEPT !.reloginFailed = TRUE]
                       ELSE hist
    /\ UNCHANGED <<healthy, schedVars, chanVars, displayVars, mainPc>>

\* Login's final test of ac.authenticated, read after the cookie loop
ReloginCheck(t) ==
    /\ Alive
    /\ task[t].pc = "loginCheck"
    /\ LET e == LoginVerdict(authenticated)
       IN task' = [task EXCEPT ![t] =
                     IF e # NoErr
                     THEN AfterFetch(task[t], None, Wrap("re-authenticate", e))
                     ELSE [task[t] EXCEPT !.pc = "request2"]]
          /\ hist' = IF e # NoErr
                     THEN [NoteWindow(hist, t) EXCEPT !.reloginFailed = TRUE]
                     ELSE hist
    /\ UNCHANGED <<clientVars, healthy, schedVars, chanVars, displayVars, mainPc>>

\* a FetchDevices that drops the error of its repeated request
RetriedErrDropped(err) == NoErr

\* FetchDevices: the error of the repeated request is returned wrapped:
\* fmt.Errorf("failed after re-authentication: %w", err)
RetriedErr(err) ==
    IF err # NoErr THEN Wrap("after re-authentication", err) ELSE NoErr

\* FetchDevices: the request repeated after the re-login
SecondRequest(t) ==
    /\ Alive
    /\ task[t].pc = "request2"
    /\ \E ans \in DeviceAnswers, payload \in Payloads :
         LET r == RequestResult(ans, payload)
             tr == [task[t] EXCEPT !.trace = Append(@, Sent("devices", ans))]
         IN task' = [task EXCEPT ![t] =
                       AfterFetch(tr, r.response, RetriedErr(r.err))]
    /\ hist' = NoteWindow(hist, t)
    /\ UNCHANGED <<clientVars, healthy, schedVars, chanVars, displayVars, mainPc>>

\* make(chan *APIResponse, 1), make(chan error, 1)
ChannelCap == 1

\* a fetchData that reports every outcome on errorChannel
SendsNoData(res) == FALSE

\* fetchData: "if err != nil" sends on errorChannel, else on dataChannel
SendsData(res) == res.ok

\* a fetchData that stays at its send after sending
StaysToSend(tk) == tk

\* fetchData: the goroutine returns after its send
AfterSend(tk) == IdleTask

\* fetchData: the send case of the final select has room
DeliverSend(t) ==
    /\ Alive
    /\ task[t].pc = "deliver"
    /\ ~channelsClosed
    /\ IF SendsData(task[t].result)
       THEN /\ Len(dataChannel) < ChannelCap
            /\ dataChannel' = Append(dataChannel, task[t].result.response)
            /\ UNCHANGED errorChannel
       ELSE /\ Len(errorChannel) < ChannelCap
            /\ errorChannel' = Append(errorChannel, task[t].result.err)
            /\ UNCHANGED dataChannel
    /\ task' = [task EXCEPT ![t] = AfterSend(task[t])]
    /\ UNCHANGED <<clientVars, healthy, schedVars, displayVars, mainPc, hist>>

\* a final select without its <-s.ctx.Done() case
DoneNeverReady == FALSE

\* fetchData: the <-s.ctx.Done() case of the final select is ready
DoneReady == ctxDone

\* fetchData: the <-s.ctx.Done() case of the final select
DeliverAbandon(t) ==
    /\ Alive
    /\ task[t].pc = "deliver"
    /\ DoneReady
    /\ task' = [task EXCEPT ![t] = IdleTask]
    /\ UNCHANGED <<clientVars, healthy, schedVars, chanVars, displayVars, mainPc, hist>>

\* fetchData: the send case of the final select chosen on a closed channel
DeliverPanic(t) ==
    /\ Alive
    /\ task[t].pc = "deliver"
    /\ channelsClosed
    /\ mainPc' = "panicked"
    /\ UNCHANGED <<clientVars, healthy, task, schedVars, chanVars, displayVars, hist>>

\* the steps of FetchDevicesWithRetry
ClientStep(t) ==
    \/ FetchDevicesCall(t)
    \/ Relogin(t)
    \/ ReloginCheck(t)
    \/ SecondRequest(t)

\* the steps of fetchData
TaskStep(t) ==
    \/ FetchDataEnter(t)
    \/ ClientStep(t)
    \/ DeliverSend(t)
    \/ DeliverAbandon(t)
    \/ DeliverPanic(t)

\* ---------------------------------------------------------------- display
\* GroupDevicesByLogicalDevice: the grouped view built of a device list,
\* stamped LastUpdated: time.Now()
Grouped(response, now) == [devices |-> response, lastUpdated |-> now]

\* a nil *GroupedDevices
NoData == [devices |-> None, lastUpdated |-> None]

\* nothing drawn yet
Blank == [view |-> "blank", banner |-> NoErr, lastKnown |-> None, body |-> NoData]

\* a Render that stores the data it is passed even with an error
RenderOverwrites(data, err) ==
    LET msg == IF err # NoErr THEN err ELSE NoErr
    IN [errorMessage |-> msg,
        lastData |-> data,
        screen |-> IF msg # NoErr
                   THEN [view |-> "error", banner |-> msg,
                         lastKnown |-> data.lastUpdated, body |-> data]
                   ELSE IF data # NoData
                   THEN [view |-> "devices", banner |-> NoErr, lastKnown |-> None,
                         body |-> data]
                   ELSE [view |-> "waiting", banner |-> NoErr, lastKnown |-> None,
                         body |-> NoData]]

\* DisplayManager.Render(data, err): the fields it leaves and what it draws
\* (err = NoErr is a nil error): the error banner with the retained view
\* under "Last known data (from ...)", or the view passed, or "Waiting for
\* data..."
Render(data, err) ==
    LET msg == IF err # NoErr THEN err ELSE NoErr
        last == IF err # NoErr THEN lastData ELSE data
    IN [errorMessage |-> msg,
        lastData |-> last,
        screen |-> IF msg # NoErr
                   THEN [view |-> "error", banner |-> msg,
                         lastKnown |-> last.lastUpdated, body |-> last]
                   ELSE IF data # NoData
                   THEN [view |-> "devices", banner |-> NoErr, lastKnown |-> None,
                         body |-> data]
                   ELSE [view |-> "waiting", banner |-> NoErr, lastKnown |-> None,
                         body |-> NoData]]

\* DisplayManager.RestoreTerminal (stdout is a terminal): the alternate
\* buffer is left
RestoreTerminal(alt) == FALSE

\* a RestoreTerminal call that is left out
NotRestored(h) == h

\* one more execution of RestoreTerminal
Restored(h) == [h EXCEPT !.restores = @ + 1]

\* -------------------------------------------------------------- scheduler
\* a Stop without the "if !s.running { return }" guard
StopUnguarded(done) == TRUE

\* Scheduler.Stop: cancels the context only when running
Stop(done) == IF ~running THEN done ELSE TRUE

\* Scheduler.Stop called by another goroutine of the process
StopCall ==
    /\ Alive
    /\ ctxDone' = Stop(ctxDone)
    /\ hist' = [hist EXCEPT !.idleStop = @ \/ ~running]
    /\ UNCHANGED <<clientVars, healthy, task, running, ticker,
                   channelsClosed, chanVars, displayVars, mainPc>>

\* the slot the next "go s.fetchData()" runs in
NextSlot == CHOOSE t \in Tasks : FreeSlot(t) /\ \A u \in Tasks : FreeSlot(u) => t <= u

\* a launch that ends the fetches in flight
LaunchRestarts == [t \in Tasks |-> IF t = NextSlot THEN NewTask ELSE IdleTask]

\* go s.fetchData()
Launch == [task EXCEPT ![NextSlot] = NewTask]

\* Scheduler.Start up to its loop: full-screen mode (stdout is a terminal),
\* running, the ticker, signal.Notify and the first "go s.fetchData()"
Start ==
    /\ mainPc = "start"
    /\ ~running
    /\ altScreen' = TRUE
    /\ running' = TRUE
    /\ ticker' = "armed"
    /\ task' = Launch
    /\ mainPc' = "loop"
    /\ hist' = [hist EXCEPT !.fullScreen = TRUE, !.idleStop = FALSE]
    /\ UNCHANGED <<clientVars, healthy, ctxDone, channelsClosed,
                   chanVars, lastData, errorMessage, screen>>

\* Start, case <-s.ctx.Done(): cleanup and return
HandleDone ==
    /\ mainPc = "loop"
    /\ ctxDone
    /\ ticker' = IF ticker # "nil" THEN "stopped" ELSE ticker
    /\ running' = FALSE
    /\ channelsClosed' = TRUE
    /\ mainPc' = "returned"
    /\ hist' = [hist EXCEPT !.cleanups = @ + 1]
    /\ UNCHANGED <<clientVars, healthy, task, ctxDone,
                   chanVars, displayVars>>

\* Start, case <-signalChan (SIGINT or SIGTERM has arrived): RestoreTerminal,
\* Stop, return
HandleSignal ==
    /\ mainPc = "loop"
    /\ altScreen' = RestoreTerminal(altScreen)
    /\ ctxDone' = Stop(ctxDone)
    /\ mainPc' = "returned"
    /\ hist' = Restored(hist)
    /\ UNCHANGED <<clientVars, healthy, task, running, ticker, channelsClosed,
                   chanVars, lastData, errorMessage, screen>>

\* Start, case <-s.ticker.C (the armed ticker has fired): go s.fetchData()
HandleTick ==
    /\ mainPc = "loop"
    /\ ticker = "armed"
    /\ \E t \in Tasks : FreeSlot(t)
    /\ task' = Launch
    /\ UNCHANGED hist
    /\ UNCHANGED <<clientVars, healthy, ctxDone, running, ticker,
                   channelsClosed, chanVars, displayVars, mainPc>>

\* a loop that returns after drawing an error
ErrorEndsLoop == "returned"

\* where Start stands after the case of a failed fetch result
AfterError == "loop"

\* Start, case response := <-s.dataChannel: group, UpdateTerminalSize, Render
HandleData ==
    /\ mainPc = "loop"
    /\ dataChannel # <<>>
    /\ \E now \in PolledTimes :
         LET grouped == Grouped(Head(dataChannel), now)
             r == Render(grouped, NoErr)
         IN /\ lastData' = r.lastData
            /\ errorMessage' = r.errorMessage
            /\ screen' = r.screen
            /\ hist' = [hist EXCEPT !.lastGood = grouped]
    /\ dataChannel' = Tail(dataChannel)
    /\ UNCHANGED <<clientVars, healthy, task, schedVars, errorChannel, altScreen,
                   mainPc>>

\* Start, case err := <-s.errorChannel: Render(nil, err)
HandleError ==
    /\ mainPc = "loop"
    /\ errorChannel # <<>>
    /\ LET r == Render(NoData, Head(errorChannel))
       IN /\ lastData' = r.lastData
          /\ errorMessage' = r.errorMessage
          /\ screen' = r.screen
    /\ UNCHANGED hist
    /\ errorChannel' = Tail(errorChannel)
    /\ mainPc' = AfterError
    /\ UNCHANGED <<clientVars, healthy, task, schedVars, dataChannel, altScreen>>

\* ------------------------------------------------------------------- main
\* Scheduler.TestInitialConnection: the startup Login (request, cookie loop
\* and final test run with no other goroutine alive)
StartupLogin ==
    /\ mainPc = "testLogin"
    /\ \E ans \in LoginAnswers :
         LET x == LoginExchange(ans)
             e == IF x.err # NoErr THEN x.err ELSE LoginVerdict(x.auth)
         IN /\ authCookie' = x.cookie
            /\ authenticated' = x.auth
            /\ mainPc' = IF e # NoErr THEN "runFailed" ELSE "testRequest"
    /\ UNCHANGED <<healthy, task, schedVars, chanVars, displayVars, hist>>

\* makeTestRequest: the error for one server answer
TestResult(ans) ==
    IF ans.kind = "transport" THEN TransportErr("test")
    ELSE IF ans.status # StatusOK THEN APIError(ans.status)
    ELSE NoErr

\* APIClient.TestConnection: the first makeTestRequest; on a 401 the flag is
\* cleared and the re-login follows
TestRequest ==
    /\ mainPc = "testRequest"
    /\ \E ans \in DeviceAnswers :
         LET e == TestResult(ans)
             unauthorized == e.api /\ e.status = StatusUnauthorized
         IN /\ authenticated' = IF unauthorized THEN FALSE ELSE authenticated
            /\ mainPc' = IF e = NoErr THEN "start"
                         ELSE IF unauthorized THEN "testRelogin" ELSE "runFailed"
    /\ UNCHANGED <<authCookie, healthy, task, schedVars, chanVars, displayVars, hist>>

\* APIClient.TestConnection: the re-login and the repeated makeTestRequest
TestRelogin ==
    /\ mainPc = "testRelogin"
    /\ \E ans \in LoginAnswers, again \in DeviceAnswers :
         LET x == LoginExchange(ans)
             e == IF x.err # NoErr THEN x.err ELSE LoginVerdict(x.auth)
         IN /\ authCookie' = x.cookie
            /\ authenticated' = x.auth
            /\ mainPc' = IF e = NoErr /\ TestResult(again) = NoErr
                         THEN "start" ELSE "runFailed"
    /\ UNCHANGED <<healthy, task, schedVars, chanVars, displayVars, hist>>

\* Application.Run: the startup test failed: RestoreTerminal, return the
\* error, which main passes to log.Fatalf
RunFailed ==
    /\ mainPc = "runFailed"
    /\ altScreen' = RestoreTerminal(altScreen)
    /\ hist' = Restored(hist)
    /\ mainPc' = "fatal"
    /\ UNCHANGED <<clientVars, healthy, task, schedVars, chanVars, lastData,
                   errorMessage, screen>>

\* main's deferred function: Application.Shutdown (Stop, RestoreTerminal),
\* then RestoreTerminal once more; main returns and the process exits
Deferred ==
    /\ mainPc = "returned"
    /\ ctxDone' = Stop(ctxDone)
    /\ altScreen' = RestoreTerminal(RestoreTerminal(altScreen))
    /\ hist' = Restored(Restored(hist))
    /\ mainPc' = "exited"
    /\ UNCHANGED <<clientVars, healthy, task, running, ticker,
                   channelsClosed, chanVars, lastData, errorMessage, screen>>

\* the server (and the network) recovers for good
ServerRecovers ==
    /\ Alive
    /\ ~healthy
    /\ healthy' = TRUE
    /\ UNCHANGED <<clientVars, task, schedVars, chanVars, displayVars, mainPc, hist>>

\* ---------------------------------------------------------- specification
NoHist == [restores |-> 0, cleanups |-> 0, reloginFailed |-> FALSE,
           idleStop |-> FALSE, sawUnauth |-> {}, fullScreen |-> FALSE, lastGood |-> NoData]

\* NewAPIClient, NewDisplayManager, NewScheduler
Init ==
    /\ authenticated = FALSE
    /\ authCookie = FALSE
    /\ healthy = FALSE
    /\ task = [t \in Tasks |-> IdleTask]
    /\ ctxDone = FALSE
    /\ running = FALSE
    /\ ticker = "nil"
    /\ dataChannel = <<>>
    /\ errorChannel = <<>>
    /\ channelsClosed = FALSE
    /\ lastData = NoData
    /\ errorMessage = NoErr
    /\ screen = Blank
    /\ altScreen = FALSE
    /\ mainPc = "testLogin"
    /\ hist = NoHist

Next ==
    \/ StartupLogin
    \/ TestRequest
    \/ TestRelogin
    \/ RunFailed
    \/ Start
    \/ StopCall
    \/ HandleDone
    \/ HandleSignal
    \/ HandleTick
    \/ HandleData
    \/ HandleError
    \/ Deferred
    \/ \E t \in Tasks : TaskStep(t)

Spec == Init /\ [][Next]_vars

\* The polling program left to run (no signal, no Stop) against a server that
\* may recover for good.  The Go scheduler runs every runnable goroutine and
\* select takes each ready case sooner or later.
PollStep(t) ==
    \/ FetchDataEnter(t)
    \/ ClientStep(t)
    \/ DeliverSend(t)

NextPolling ==
    \/ StartupLogin
    \/ TestRequest
    \/ TestRelogin
    \/ RunFailed
    \/ Start
    \/ HandleTick
    \/ HandleData
    \/ HandleError
    \/ ServerRecovers
    \/ \E t \in Tasks : PollStep(t)

FairSpec ==
    /\ Init
    /\ [][NextPolling]_vars
    /\ WF_vars(StartupLogin \/ TestRequest \/ TestRelogin \/ RunFailed \/ Start)
    /\ WF_vars(HandleTick)
    /\ WF_vars(HandleData)
    /\ WF_vars(HandleError)
    /\ \A t \in Tasks : WF_vars(PollStep(t))

\* ------------------------------------------------ the scheduler shut down
\* The polling loop from two states it can be in, up to the end of the
\* process: right after Start against a server that answers every request
\* with 200 (the fetches succeed), and after a re-login has failed and the
\* error has been drawn (ac.authenticated = false: the fetches fail).
UnauthErr == FinalErr(Err(FALSE, 0, "not authenticated"))

InitCancel ==
    /\ authenticated \in BOOLEAN
    /\ authCookie = TRUE
    /\ healthy = authenticated
    /\ task = [t \in Tasks |-> IF t = 1 THEN NewTask ELSE IdleTask]
    /\ ctxDone = FALSE
    /\ running = TRUE
    /\ ticker = "armed"
    /\ dataChannel = <<>>
    /\ errorChannel = <<>>
    /\ channelsClosed = FALSE
    /\ lastData = NoData
    /\ errorMessage = IF authenticated THEN NoErr ELSE UnauthErr
    /\ screen = IF authenticated THEN Blank ELSE Render(NoData, UnauthErr).screen
    /\ altScreen = TRUE
    /\ mainPc = "loop"
    /\ hist = [NoHist EXCEPT !.fullScreen = TRUE, !.reloginFailed = ~authenticated]

\* the steps of fetchData in these runs (no 401 is answered)
CancelStep(t) ==
    \/ FetchDataEnter(t)
    \/ FetchDevicesCall(t)
    \/ DeliverSend(t)
    \/ DeliverAbandon(t)
    \/ DeliverPanic(t)

NextCancel ==
    \/ StopCall
    \/ HandleDone
    \/ HandleSignal
    \/ HandleTick
    \/ HandleData
    \/ HandleError
    \/ Deferred
    \/ \E t \in Tasks : CancelStep(t)

\* Every goroutine that can run gets its turn (the Go scheduler starves no
\* runnable goroutine); nothing is assumed of the coordinating loop or of the
\* callers of Stop.
CancelSpec ==
    InitCancel /\ [][NextCancel]_vars /\ \A t \in Tasks : WF_vars(CancelStep(t))

\* ------------------------------------------------- Scheduler.RunOnce runs
\* RunOnce: FetchDevicesWithRetry(2) is entered
RunOnceCall ==
    /\ mainPc = "runOnce"
    /\ task[1].pc = "idle"
    /\ task' = [task EXCEPT ![1] = [IdleTask EXCEPT !.pc = "retry"]]
    /\ UNCHANGED <<clientVars, healthy, schedVars, chanVars, displayVars, mainPc, hist>>

\* RunOnce: FetchDevicesWithRetry has returned: Render(nil, err), or group
\* and Render(grouped, nil)
RunOnceRender ==
    /\ mainPc = "runOnce"
    /\ task[1].pc = "deliver"
    /\ \E now \in {"t1", "t2"} :
         LET res == task[1].result
             grouped == Grouped(res.response, now)
             r == IF res.ok THEN Render(grouped, NoErr) ELSE Render(NoData, res.err)
         IN /\ lastData' = r.lastData
            /\ errorMessage' = r.errorMessage
            /\ screen' = r.screen
            /\ hist' = IF res.ok THEN [hist EXCEPT !.lastGood = grouped] ELSE hist
    /\ task' = [task EXCEPT ![1] = IdleTask]
    /\ UNCHANGED <<clientVars, healthy, schedVars, chanVars, altScreen, mainPc>>

\* a client in any state of its session, a fresh display, no scheduler loop
InitOnce ==
    /\ authenticated \in BOOLEAN
    /\ authCookie \in BOOLEAN
    /\ authenticated => authCookie
    /\ healthy = FALSE
    /\ task = [t \in Tasks |-> IdleTask]
    /\ ctxDone = FALSE
    /\ running = FALSE
    /\ ticker = "nil"
    /\ dataChannel = <<>>
    /\ errorChannel = <<>>
    /\ channelsClosed = FALSE
    /\ lastData = NoData
    /\ errorMessage = NoErr
    /\ screen = Blank
    /\ altScreen = FALSE
    /\ mainPc = "runOnce"
    /\ hist = NoHist

NextOnce ==
    \/ RunOnceCall
    \/ FetchDevicesCall(1)
    \/ Relogin(1)
    \/ ReloginCheck(1)
    \/ SecondRequest(1)
    \/ RunOnceRender

SpecOnce == InitOnce /\ [][NextOnce]_vars

\* ------------------------------------------ the methods of APIClient
\* The exported methods of APIClient called one after the other by one
\* goroutine, in any order, against a server that may give any answer.
\* task[1] holds the call: pc "loginReturned", "fetchReturned",
\* "testReturned", "logoutReturned" once it has returned, trace its requests,
\* lastErr the error it returned.

\* no call is running
ClientReady ==
    /\ mainPc = "client"
    /\ task[1].pc \in {"loginReturned", "fetchReturned", "testReturned",
                       "logoutReturned", "idle"}

\* a call that has returned e after the requests trace
Called(pc, trace, e) ==
    [IdleTask EXCEPT !.pc = pc, !.trace = trace, !.lastErr = e,
                     !.result = [ok |-> e = NoErr, response |-> None, err |-> e]]

\* APIClient.Login
ClientLogin ==
    /\ ClientReady
    /\ \E ans \in LoginAnswers :
         LET x == LoginExchange(ans)
             e == IF x.err # NoErr THEN x.err ELSE LoginVerdict(x.auth)
         IN /\ authCookie' = x.cookie
            /\ authenticated' = x.auth
            /\ task' = [task EXCEPT ![1] =
                          Called("loginReturned", <<Sent("login", ans)>>, e)]
    /\ UNCHANGED <<healthy, schedVars, chanVars, displayVars, mainPc, hist>>

\* APIClient.FetchDevicesWithRetry is entered
ClientFetch ==
    /\ ClientReady
    /\ task' = [task EXCEPT ![1] = [IdleTask EXCEPT !.pc = "retry"]]
    /\ UNCHANGED <<clientVars, healthy, schedVars, chanVars, displayVars, mainPc, hist>>

\* APIClient.FetchDevicesWithRetry has returned
ClientFetchReturn ==
    /\ mainPc = "client"
    /\ task[1].pc = "deliver"
    /\ task' = [task EXCEPT ![1] = [@ EXCEPT !.pc = "fetchReturned"]]
    /\ UNCHANGED <<clientVars, healthy, schedVars, chanVars, displayVars, mainPc, hist>>

\* APIClient.TestConnection: the first makeTestRequest; a 401 clears the
\* flag and the re-login follows
ClientTest ==
    /\ ClientReady
    /\ \E ans \in DeviceAnswers :
         LET e == TestResult(ans)
         IN IF e.api /\ e.status = StatusUnauthorized
            THEN /\ authenticated' = FALSE
                 /\ task' = [task EXCEPT ![1] =
                               [IdleTask EXCEPT !.pc = "testRelogin",
                                                !.trace = <<Sent("test", ans)>>]]
            ELSE /\ task' = [task EXCEPT ![1] =
                               Called("testReturned", <<Sent("test", ans)>>, e)]
                 /\ UNCHANGED authenticated
    /\ UNCHANGED <<authCookie, healthy, schedVars, chanVars, displayVars, mainPc, hist>>

\* APIClient.TestConnection: the re-login and the repeated makeTestRequest
ClientTestRelogin ==
    /\ mainPc = "client"
    /\ task[1].pc = "testRelogin"
    /\ \E la \in LoginAnswers, again \in DeviceAnswers :
         LET x == LoginExchange(la)
             le == IF x.err # NoErr THEN x.err ELSE LoginVerdict(x.auth)
             e2 == TestResult(again)
             sent == Append(task[1].trace, Sent("login", la))
         IN /\ authCookie' = x.cookie
            /\ authenticated' = x.auth
            /\ task' = [task EXCEPT ![1] =
                          IF le # NoErr
                          THEN Called("testReturned", sent,
                                      Wrap("re-authenticate during test", le))
                          ELSE Called("testReturned",
                                      Append(sent, Sent("test", again)),
                                      IF e2 # NoErr
                                      THEN Wrap("test after re-authentication", e2)
                                      ELSE NoErr)]
    /\ UNCHANGED <<healthy, schedVars, chanVars, displayVars, mainPc, hist>>

\* APIClient.Logout
ClientLogout ==
    /\ ClientReady
    /\ authenticated' = FALSE
    /\ authCookie' = FALSE
    /\ task' = [task EXCEPT ![1] = Called("logoutReturned", <<>>, NoErr)]
    /\ UNCHANGED <<healthy, schedVars, chanVars, displayVars, mainPc, hist>>

\* NewAPIClient
InitClient ==
    /\ authenticated = FALSE
    /\ authCookie = FALSE
    /\ healthy = FALSE
    /\ task = [t \in Tasks |-> IdleTask]
    /\ ctxDone = FALSE
    /\ running = FALSE
    /\ ticker = "nil"
    /\ dataChannel = <<>>
    /\ errorChannel = <<>>
    /\ channelsClosed = FALSE
    /\ lastData = NoData
    /\ errorMessage = NoErr
    /\ screen = Blank
    /\ altScreen = FALSE
    /\ mainPc = "client"
    /\ hist = NoHist

NextClient ==
    \/ ClientLogin
    \/ ClientFetch
    \/ ClientStep(1)
    \/ ClientFetchReturn
    \/ ClientTest
    \/ ClientTestRelogin
    \/ ClientLogout

SpecClient == InitClient /\ [][NextClient]_vars

\* ------------------------------------------- GroupDevicesByLogicalDevice
\* PhysicalDevice, as far as the grouping reads it: id, LogicalDevice.ID,
\* LogicalDevice.TopologyType and AsNode.Role ("nil": AsNode == nil)
\* a nil *PhysicalDevice
NoDevice == [id |-> 0, lid |-> None, topo |-> None, role |-> None]

\* the device lists of a response: the i-th device has id i
DeviceLists ==
    LET LogicalIDs == {"L1", "L2"}
        Topologies == {"TOPOLOGY_TYPE_ACTIVE_STANDBY", "TOPOLOGY_TYPE_CLUSTER",
                       "TOPOLOGY_TYPE_STANDALONE"}
        Roles == {"ACTIVE_STANDBY_ROLE_ACTIVE", "ACTIVE_STANDBY_ROLE_STANDBY",
                  "nil"}
    IN UNION {{[i \in 1..n |-> [id |-> i, lid |-> f[i][1], topo |-> f[i][2],
                                role |-> f[i][3]]]
                 : f \in [1..n -> LogicalIDs \X Topologies \X Roles]}
                : n \in 0..MaxDevices}

\* a first loop body that forgets a device whose group exists
AddDeviceOnce(m, d) ==
    IF d.lid \in DOMAIN m THEN m
    ELSE m @@ (d.lid :> [logicalDevice |-> [id |-> d.lid, topo |-> d.topo],
                         physicalDevices |-> <<d>>])

\* the first loop's body: append to the group of the device's logical id, or
\* make the group from the device
AddDevice(m, d) ==
    IF d.lid \in DOMAIN m
    THEN [m EXCEPT ![d.lid].physicalDevices = Append(@, d)]
    ELSE m @@ (d.lid :> [logicalDevice |-> [id |-> d.lid, topo |-> d.topo],
                         physicalDevices |-> <<d>>])

\* the first loop: groupMap after the devices, in fetch order
RECURSIVE GroupMap(_)
GroupMap(devs) ==
    IF devs = <<>> THEN [k \in {} |-> NoDevice]
    ELSE AddDevice(GroupMap(SubSeq(devs, 1, Len(devs) - 1)), devs[Len(devs)])

\* group.IsCluster
IsClusterTopology(topo) ==
    topo = "TOPOLOGY_TYPE_ACTIVE_STANDBY" \/ topo = "TOPOLOGY_TYPE_CLUSTER"

NoNodes == [activeNode |-> NoDevice, standbyNodes |-> <<>>]

\* the scan of a cluster's members: ActiveNode is assigned at every active
\* member, StandbyNodes gets every standby member
RECURSIVE ScanNodes(_)
ScanNodes(members) ==
    IF members = <<>> THEN NoNodes
    ELSE LET prev == ScanNodes(SubSeq(members, 1, Len(members) - 1))
             d == members[Len(members)]
         IN IF d.role = "ACTIVE_STANDBY_ROLE_ACTIVE"
            THEN [prev EXCEPT !.activeNode = d]
            ELSE IF d.role = "ACTIVE_STANDBY_ROLE_STANDBY"
            THEN [prev EXCEPT !.standbyNodes = Append(@, d)]
            ELSE prev

\* the second loop's body
Analyze(group) ==
    LET cluster == IsClusterTopology(group.logicalDevice.topo)
        nodes == IF cluster THEN ScanNodes(group.physicalDevices) ELSE NoNodes
    IN [logicalDevice |-> group.logicalDevice,
        physicalDevices |-> group.physicalDevices,
        isCluster |-> cluster,
        activeNode |-> nodes.activeNode,
        standbyNodes |-> nodes.standbyNodes]

\* the orders in which "range groupMap" may visit the keys
Orders(keys) ==
    {o \in [1..Cardinality(keys) -> keys] :
        \A i, j \in DOMAIN o : i # j => o[i] # o[j]}

GroupDevicesByLogicalDevice(devs, order, now) ==
    LET m == GroupMap(devs)
    IN [groups |-> [i \in DOMAIN order |-> Analyze(m[order[i]])],
        totalDevices |-> Len(devs),
        lastUpdated |-> now]

\* a response waits in dataChannel and is grouped
GroupCall ==
    /\ mainPc = "group"
    /\ LET devs == Head(dataChannel)
       IN \E order \in Orders(DOMAIN GroupMap(devs)), now \in PolledTimes :
            lastData' = GroupDevicesByLogicalDevice(devs, order, now)
    /\ mainPc' = "grouped"
    /\ UNCHANGED <<clientVars, healthy, task, schedVars, chanVars, errorMessage,
                   screen, altScreen, hist>>

InitGroup ==
    /\ authenticated = TRUE
    /\ authCookie = TRUE
    /\ healthy = FALSE
    /\ task = [t \in Tasks |-> IdleTask]
    /\ ctxDone = FALSE
    /\ running = FALSE
    /\ ticker = "nil"
    /\ dataChannel \in {<<devs>> : devs \in DeviceLists}
    /\ errorChannel = <<>>
    /\ channelsClosed = FALSE
    /\ lastData = NoData
    /\ errorMessage = NoErr
    /\ screen = Blank
    /\ altScreen = FALSE
    /\ mainPc = "group"
    /\ hist = NoHist

\* the same response is grouped once more; the first result is kept aside
GroupAgain ==
    /\ mainPc = "grouped"
    /\ LET devs == Head(dataChannel)
       IN \E order \in Orders(DOMAIN GroupMap(devs)), now \in PolledTimes :
            lastData' = GroupDevicesByLogicalDevice(devs, order, now)
    /\ hist' = [hist EXCEPT !.lastGood = lastData]
    /\ mainPc' = "groupedAgain"
    /\ UNCHANGED <<clientVars, healthy, task, schedVars, chanVars, errorMessage,
                   screen, altScreen>>

NextGroup == GroupCall \/ GroupAgain

SpecGroup == InitGroup /\ [][NextGroup]_vars

\* ------------------------------------------------------- strings of bytes
\* A Go string is its bytes.  A byte is <<ch, k>>: the k-th byte of the UTF-8
\* encoding of character ch.  ESC is the byte 0x1b, "e-acute" the two-byte
\* letter U+00E9, "box-v", "box-tee", "box-h" and "box-corner" the three-byte
\* box-drawing characters U+2502, U+251C, U+2500 and U+2514.
Size(ch) == IF ch \in {"box-v", "box-tee", "box-h", "box-corner"} THEN 3 ELSE IF ch = "e-acute" THEN 2 ELSE 1

\* the string of the characters chars
RECURSIVE Str(_)
Str(chars) ==
    IF chars = <<>> THEN <<>>
    ELSE [k \in 1..Size(Head(chars)) |-> <<Head(chars), k>>] \o Str(Tail(chars))

\* strings.Repeat of a one-byte character
Repeat(ch, n) == [i \in 1..n |-> <<ch, 1>>]

\* the classes of the regular expression \033\[[0-9;]*[a-zA-Z]
DigitChars == <<"0", "1", "2", "3", "4", "5", "6", "7", "8", "9">>

\* the first byte from j on that is not of the class [0-9;]
RECURSIVE SkipParams(_, _)
SkipParams(bs, j) ==
    LET IsParam(b) ==
            b[1] = ";" \/ \E d \in 1..Len(DigitChars) : b[1] = DigitChars[d]
    IN IF j <= Len(bs) /\ IsParam(bs[j]) THEN SkipParams(bs, j + 1) ELSE j

\* the last byte of the match of the regular expression that starts at byte
\* i of bs, 0 if none starts there
MatchEnd(bs, i) ==
    LET Letters ==
            {"a", "b", "c", "d", "e", "f", "g", "h", "i", "j", "k", "l", "m",
             "n", "o", "p", "q", "r", "s", "t", "u", "v", "w", "x", "y", "z",
             "A", "B", "C", "D", "E", "F", "G", "H", "I", "J", "K", "L", "M",
             "N", "O", "P", "Q", "R", "S", "T", "U", "V", "W", "X", "Y", "Z"}
        IsLetter(b) == b[1] \in Letters
    IN IF i + 1 <= Len(bs) /\ bs[i] = <<"ESC", 1>> /\ bs[i + 1] = <<"[", 1>>
       THEN LET j == SkipParams(bs, i + 2)
            IN IF j <= Len(bs) /\ IsLetter(bs[j]) THEN j ELSE 0
       ELSE 0

\* where the matches of the regular expression start.  A match holds no ESC
\* after its first byte, so no two matches overlap and every such place is a
\* match of FindAll, ReplaceAll and Split.
MatchStarts(bs) == {i \in 1..Len(bs) : MatchEnd(bs, i) > 0}

\* the j-th smallest member of a set of numbers
Nth(S, j) == CHOOSE k \in S : Cardinality({m \in S : m <= k}) = j

\* ansiRegex.ReplaceAllString(s, "")
stripColors(bs) ==
    LET matched == UNION {i..MatchEnd(bs, i) : i \in MatchStarts(bs)}
        indexed == [k \in 1..Len(bs) |-> <<k, bs[k]>>]
        Kept(e) == e[1] \notin matched
        kept == SelectSeq(indexed, Kept)
    IN [j \in 1..Len(kept) |-> kept[j][2]]

\* ansiRegex.FindAllString(s, -1)
FindAllString(bs) ==
    LET starts == MatchStarts(bs)
    IN [j \in 1..Cardinality(starts) |->
           SubSeq(bs, Nth(starts, j), MatchEnd(bs, Nth(starts, j)))]

\* ansiRegex.Split(s, -1): the text before, between and after the matches
Split(bs) ==
    LET starts == MatchStarts(bs)
        m == Cardinality(starts)
    IN [j \in 1..(m + 1) |->
           SubSeq(bs,
                  IF j = 1 THEN 1 ELSE MatchEnd(bs, Nth(starts, j - 1)) + 1,
                  IF j = m + 1 THEN Len(bs) ELSE Nth(starts, j) - 1)]

\* utf8.RuneCountInString: a whole encoding is one rune, any other byte is
\* one rune (an invalid byte counts as a rune of width 1).  Absorbed: byte i
\* is a continuation byte of a whole encoding.
Absorbed(bs, i) ==
    LET ch == bs[i][1]
        k == bs[i][2]
        first == i - k + 1
    IN /\ k > 1
       /\ first >= 1
       /\ first + Size(ch) - 1 <= Len(bs)
       /\ \A n \in 1..Size(ch) : bs[first + n - 1] = <<ch, n>>

RuneCountInString(bs) == Cardinality({i \in 1..Len(bs) : ~Absorbed(bs, i)})

displayWidth(bs) == RuneCountInString(stripColors(bs))

\* ColorReset = "\033[0m" and the other colour constants
ColorReset == Str(<<"ESC", "[", "0", "m">>)
ColorRed == Str(<<"ESC", "[", "3", "1", "m">>)
ColorGreen == Str(<<"ESC", "[", "3", "2", "m">>)
ColorYellow == Str(<<"ESC", "[", "3", "3", "m">>)

Ellipsis == Repeat(".", 3)

\* a part that is never cut
AlwaysFits(part, remaining) == TRUE

\* truncateString: if len(part) <= remaining
Fits(part, remaining) == Len(part) <= remaining

\* truncateString: targetLen := maxLen - 3
TargetLen(maxLen) == maxLen - Len(Ellipsis)

\* truncateString: the loop over textParts that builds the result, from part
\* p on, with colorIndex and textLen as they stand and acc written so far
RECURSIVE BuildParts(_, _, _, _, _, _, _)
BuildParts(parts, codes, p, colorIndex, textLen, target, acc) ==
    IF p > Len(parts) \/ textLen >= target THEN acc
    ELSE LET part == parts[p]
             remaining == target - textLen
         IN IF Fits(part, remaining)
            THEN BuildParts(parts, codes, p + 1,
                            IF colorIndex < Len(codes) THEN colorIndex + 1
                            ELSE colorIndex,
                            textLen + Len(part), target,
                            acc \o part \o (IF colorIndex < Len(codes)
                                            THEN codes[colorIndex + 1] ELSE <<>>))
            ELSE acc \o SubSeq(part, 1, remaining)

truncateString(s, maxLen) ==
    LET clean == stripColors(s)
    IN IF displayWidth(s) <= maxLen THEN s
       ELSE IF maxLen <= 3
       THEN IF Len(clean) <= maxLen THEN clean ELSE SubSeq(clean, 1, maxLen)
       ELSE IF Len(clean) <= maxLen - 3 THEN s
       ELSE BuildParts(Split(s), FindAllString(s), 1, 0, 0,
                       TargetLen(maxLen), <<>>)
            \o Ellipsis \o ColorReset

\* padString
padString(s, width, leftAlign) ==
    IF displayWidth(s) >= width THEN s
    ELSE IF leftAlign THEN s \o Repeat(" ", width - displayWidth(s))
    ELSE Repeat(" ", width - displayWidth(s)) \o s

\* ----------------------------------------------------- cell texts measured
\* the pieces a cell text is made of: characters of one and two bytes, a run
\* of four characters, two colour codes and the "hide cursor" sequence
\* ESC [ ? 2 5 l that initFullScreen writes
TokenBytes(tok) ==
    CASE tok = "ABCD" -> Str(<<"A", "B", "C", "D">>)
      [] tok = "red" -> ColorRed
      [] tok = "reset" -> ColorReset
      [] tok = "hide" -> Str(<<"ESC", "[", "?", "2", "5", "l">>)
      [] OTHER -> Str(<<tok>>)

RECURSIVE Flatten(_)
Flatten(tokens) ==
    IF tokens = <<>> THEN <<>> ELSE TokenBytes(Head(tokens)) \o Flatten(Tail(tokens))

TokenLists ==
    UNION {[1..n -> {"A", "e-acute", "ABCD", "red", "reset", "hide"}]
              : n \in 0..MaxTokens}

\* a cell text and a column width; nothing measured or cut yet
InitText ==
    /\ authenticated = TRUE
    /\ authCookie = TRUE
    /\ healthy = FALSE
    /\ task = [t \in Tasks |-> IdleTask]
    /\ ctxDone = FALSE
    /\ running = FALSE
    /\ ticker = "nil"
    /\ dataChannel = <<>>
    /\ errorChannel = <<>>
    /\ channelsClosed = FALSE
    /\ lastData = NoData
    /\ errorMessage = NoErr
    /\ \E tokens \in TokenLists, n \in 0..MaxWidth :
          screen = [view |-> "cell", tokens |-> tokens, text |-> Flatten(tokens),
                    width |-> n, measured |-> 0, out |-> <<>>, again |-> <<>>]
    /\ altScreen = FALSE
    /\ mainPc = "cell"
    /\ hist = NoHist

\* displayWidth(text)
MeasureCell ==
    /\ mainPc = "cell"
    /\ screen' = [screen EXCEPT !.measured = displayWidth(screen.text)]
    /\ mainPc' = "measured"
    /\ UNCHANGED <<clientVars, healthy, task, schedVars, chanVars, lastData,
                   errorMessage, altScreen, hist>>

\* truncateString(text, width)
TruncateCell ==
    /\ mainPc = "cell"
    /\ screen' = [screen EXCEPT !.out = truncateString(screen.text, screen.width)]
    /\ mainPc' = "truncated"
    /\ UNCHANGED <<clientVars, healthy, task, schedVars, chanVars, lastData,
                   errorMessage, altScreen, hist>>

\* truncateString of the result, to the same width
TruncateAgain ==
    /\ mainPc = "truncated"
    /\ screen' = [screen EXCEPT !.again = truncateString(screen.out, screen.width)]
    /\ mainPc' = "truncatedAgain"
    /\ UNCHANGED <<clientVars, healthy, task, schedVars, chanVars, lastData,
                   errorMessage, altScreen, hist>>

NextText == MeasureCell \/ TruncateCell \/ TruncateAgain

SpecText == InitText /\ [][NextText]_vars

\* ------------------------------------------------------------ device rows
\* calculateColumnWidths: the base widths and the share of the extra space
\* each column takes, in tenths (0.2, 0.1, 0.1, 0.2, 0.1, 0.3)
BaseWidths == <<3, 25, 15, 15, 12, 13, 8>>
Tenths == <<0, 2, 1, 1, 2, 1, 3>>

RECURSIVE TotalBase(_)
TotalBase(i) == IF i = 0 THEN 0 ELSE TotalBase(i - 1) + BaseWidths[i] + 3

calculateColumnWidths(termWidth) ==
    LET extraSpace == termWidth - TotalBase(Len(BaseWidths))
        \* int(float64(extraSpace) * 0.t): the conversion truncates toward
        \* zero
        TruncTenths(space, t) ==
            IF space >= 0 THEN (space * t) \div 10
            ELSE -(((-space) * t) \div 10)
        grown == [i \in 1..Len(BaseWidths) |->
                     BaseWidths[i] + TruncTenths(extraSpace, Tenths[i])]
    IN [i \in 1..Len(BaseWidths) |-> IF grown[i] < 0 THEN 0 ELSE grown[i]]

\* fmt.Sprintf("%d", n) for n >= 0
RECURSIVE Itoa(_)
Itoa(n) ==
    IF n < 10 THEN Str(<<DigitChars[n + 1]>>)
    ELSE Itoa(n \div 10) \o Str(<<DigitChars[(n % 10) + 1]>>)

\* getColor: no colour codes unless config.ColorOutput
getColor(colorOutput, color) == IF colorOutput THEN color ELSE <<>>

getConnectionStateColor(colorOutput, state) ==
    getColor(colorOutput,
             CASE state = "PHYSICAL_DEVICE_CONNECTION_STATE_CONNECTED" -> ColorGreen
               [] state = "PHYSICAL_DEVICE_CONNECTION_STATE_DISCONNECTED" -> ColorRed
               [] OTHER -> ColorYellow)

\* a device with AsNode == nil
NoNode == [Role |-> "nil", Priority |-> 0]

GetRoleDisplay(device) ==
    IF device.AsNode = NoNode THEN <<>>
    ELSE CASE device.AsNode.Role = "ACTIVE_STANDBY_ROLE_ACTIVE" ->
                  Str(<<"A", "C", "T", "I", "V", "E">>)
           [] device.AsNode.Role = "ACTIVE_STANDBY_ROLE_STANDBY" ->
                  Str(<<"S", "T", "A", "N", "D", "B", "Y">>)
           [] OTHER -> Str(<<"U", "N", "S", "P", "E", "C", "I", "F", "I", "E", "D">>)

getRoleColor(colorOutput, role) ==
    getColor(colorOutput,
             CASE role = Str(<<"A", "C", "T", "I", "V", "E">>) -> ColorGreen
               [] role = Str(<<"S", "T", "A", "N", "D", "B", "Y">>) -> ColorYellow
               [] OTHER -> ColorRed)

GetConnectionStateDisplay(device) ==
    CASE device.ConnectionState = "PHYSICAL_DEVICE_CONNECTION_STATE_CONNECTED" ->
             Str(<<"C", "O", "N", "N", "E", "C", "T", "E", "D">>)
      [] device.ConnectionState = "PHYSICAL_DEVICE_CONNECTION_STATE_CONNECTING" ->
             Str(<<"C", "O", "N", "N", "E", "C", "T", "I", "N", "G">>)
      [] device.ConnectionState = "PHYSICAL_DEVICE_CONNECTION_STATE_DISCONNECTED" ->
             Str(<<"D", "I", "S", "C", "O", "N", "N", "E", "C", "T", "E", "D">>)
      [] OTHER -> Str(<<"U", "N", "S", "P", "E", "C", "I", "F", "I", "E", "D">>)

GetProductVersionDisplay(device) ==
    IF device.ProductVersion = <<>> THEN Str(<<"-">>) ELSE device.ProductVersion

\* the text padded or cut to the column
Cell(text, w) == padString(truncateString(text, w), w, TRUE)

\* renderPhysicalDevice: the line handed to printLine
renderPhysicalDevice(device, isLast, termWidth, colorOutput) ==
    LET treeChar == IF isLast THEN Str(<<"box-corner", "box-h">>)
                    ELSE Str(<<"box-tee", "box-h">>)
        connColor == getConnectionStateColor(colorOutput, device.ConnectionState)
        resetColor == getColor(colorOutput, ColorReset)
        role == GetRoleDisplay(device)
        deviceName ==
            IF role # <<>>
            THEN device.Name \o Str(<<" ", "[">>) \o getRoleColor(colorOutput, role)
                 \o role \o resetColor \o Str(<<"]">>)
            ELSE device.Name
        colWidths == calculateColumnWidths(termWidth)
        priority ==
            IF device.AsNode = NoNode THEN Str(<<"-">>)
            ELSE IF colWidths[6] < 12 THEN Itoa(device.AsNode.Priority)
            ELSE Str(<<"P", "r", "i", "o", "r", "i", "t", "y", ":", " ">>)
                 \o Itoa(device.AsNode.Priority)
        sep == Str(<<" ", "box-v", " ">>)
        deviceRow ==
            Str(<<" ">>) \o padString(treeChar, colWidths[1], TRUE)
            \o Str(<<" ">>) \o Cell(deviceName, colWidths[2])
            \o sep \o Cell(device.Model, colWidths[3])
            \o sep \o connColor
            \o Cell(GetConnectionStateDisplay(device), colWidths[4]) \o resetColor
            \o sep \o Cell(device.Address, colWidths[5])
            \o sep \o Cell(priority, colWidths[6])
            \o sep \o Cell(GetProductVersionDisplay(device), colWidths[7])
        room == termWidth - displayWidth(deviceRow) - 4
        padding == IF room < 1 THEN 0 ELSE room
    IN Str(<<"box-v", " ">>) \o deviceRow \o Repeat(" ", padding)
       \o Str(<<" ", "box-v">>)

\* a device about to be drawn on a terminal of some width: a short name, a
\* name with a two-byte letter or the 26-character name
\* "very-long-device-name-1234"
InitRow ==
    /\ authenticated = TRUE
    /\ authCookie = TRUE
    /\ healthy = TRUE
    /\ task = [t \in Tasks |-> IdleTask]
    /\ ctxDone = FALSE
    /\ running = FALSE
    /\ ticker = "nil"
    /\ dataChannel = <<>>
    /\ errorChannel = <<>>
    /\ channelsClosed = FALSE
    /\ lastData = NoData
    /\ errorMessage = NoErr
    /\ \E name \in
            {Str(<<"f", "w", "-", "1">>),
             Str(<<"c", "a", "f", "e-acute">>),
             Str(<<"v", "e", "r", "y", "-", "l", "o", "n", "g", "-", "d", "e",
                   "v", "i", "c", "e", "-", "n", "a", "m", "e", "-", "1", "2",
                   "3", "4">>)},
          w \in 78..MaxTermWidth, last \in BOOLEAN :
          screen = [view |-> "row", termWidth |-> w, isLast |-> last,
                    colorOutput |-> TRUE, Name |-> name,
                    Model |-> Str(<<"F", "W", "-", "1", "0", "0">>),
                    Address |-> Str(<<"1", "0", ".", "0", ".", "0", ".", "1">>),
                    AsNode |-> NoNode,
                    ConnectionState |-> "PHYSICAL_DEVICE_CONNECTION_STATE_CONNECTED",
                    ProductVersion |-> <<>>,
                    colWidths |-> <<>>,
                    line |-> <<>>]
    /\ altScreen = TRUE
    /\ mainPc = "row"
    /\ hist = NoHist

\* the device's other fields as the server reports them (a standalone device
\* or a cluster node, connected or not, with and without product version),
\* and the colour setting of the configuration
SetRow ==
    /\ mainPc = "row"
    /\ \E node \in {NoNode,
                    [Role |-> "ACTIVE_STANDBY_ROLE_ACTIVE", Priority |-> 1],
                    [Role |-> "ACTIVE_STANDBY_ROLE_STANDBY", Priority |-> 100]},
          st \in {"PHYSICAL_DEVICE_CONNECTION_STATE_CONNECTED",
                  "PHYSICAL_DEVICE_CONNECTION_STATE_DISCONNECTED"},
          ver \in {<<>>, Str(<<"7", ".", "2", ".", "1">>)},
          co \in BOOLEAN :
          screen' = [screen EXCEPT !.AsNode = node, !.ConnectionState = st,
                                   !.ProductVersion = ver, !.colorOutput = co]
    /\ mainPc' = "rowSet"
    /\ UNCHANGED <<clientVars, healthy, task, schedVars, chanVars, lastData,
                   errorMessage, altScreen, hist>>

\* renderPhysicalDevice(device, isLast)
RenderRow ==
    /\ mainPc \in {"row", "rowSet"}
    /\ screen' = [screen EXCEPT
                    !.colWidths = calculateColumnWidths(screen.termWidth),
                    !.line = renderPhysicalDevice(screen, screen.isLast,
                                                  screen.termWidth,
                                                  screen.colorOutput)]
    /\ mainPc' = "rowDrawn"
    /\ UNCHANGED <<clientVars, healthy, task, schedVars, chanVars, lastData,
                   errorMessage, altScreen, hist>>

NextRow == SetRow \/ RenderRow

SpecRow == InitRow /\ [][NextRow]_vars

\* ------------------------------------------------- comparison of strings
UpperCase == <<"A", "B", "C", "D", "E", "F", "G", "H", "I", "J", "K", "L", "M",
               "N", "O", "P", "Q", "R", "S", "T", "U", "V", "W", "X", "Y", "Z">>
LowerCase == <<"a", "b", "c", "d", "e", "f", "g", "h", "i", "j", "k", "l", "m",
               "n", "o", "p", "q", "r", "s", "t", "u", "v", "w", "x", "y", "z">>

IndexIn(seq, ch) == CHOOSE i \in DOMAIN seq : seq[i] = ch
IsIn(seq, ch) == \E i \in DOMAIN seq : seq[i] = ch

\* the value of a byte: ASCII for the letters, the digits, the space and
\* "-"; the bytes of the other characters used lie above all of these
ByteValue(b) ==
    IF IsIn(UpperCase, b[1]) THEN 64 + IndexIn(UpperCase, b[1])
    ELSE IF IsIn(LowerCase, b[1]) THEN 96 + IndexIn(LowerCase, b[1])
    ELSE IF IsIn(DigitChars, b[1]) THEN 47 + IndexIn(DigitChars, b[1])
    ELSE IF b[1] = " " THEN 32
    ELSE IF b[1] = "-" THEN 45
    ELSE 127 + b[2]

\* Go's a < b on strings: the bytes compared in order
Less(a, b) ==
    \E i \in 1..(Len(a) + 1) :
        /\ i <= Len(b)
        /\ \A k \in 1..(i - 1) : a[k] = b[k]
        /\ (i = Len(a) + 1 \/ ByteValue(a[i]) < ByteValue(b[i]))

\* ----------------------------------------------------- renderDeviceGroups
\* the group lists of a view: the i-th group has logical-device id i and the
\* physical devices 2i-1, 2i; the logical devices are named "FW", "alpha",
\* "fw" or "fw-2"
GroupLists ==
    LET GroupNames ==
            {Str(<<"F", "W">>), Str(<<"a", "l", "p", "h", "a">>),
             Str(<<"f", "w">>), Str(<<"f", "w", "-", "2">>)}
    IN UNION {{[i \in 1..n |-> [id |-> i, name |-> f[i],
                                physicalDevices |-> <<2 * i - 1, 2 * i>>]]
                 : f \in [1..n -> GroupNames]}
                : n \in 0..MaxGroups}

\* the permutations of 1..n
IndexOrders(n) ==
    {p \in [1..n -> 1..n] : \A i, j \in 1..n : i # j => p[i] # p[j]}

\* sort.Slice(groups, less): the slice permuted so that no element is less
\* than one before it (the sort is not stable: elements with equal names
\* come in any order)
SortSlice(groups) ==
    {[i \in 1..Len(groups) |-> groups[p[i]]] :
        p \in {q \in IndexOrders(Len(groups)) :
                 \A i, j \in 1..Len(groups) :
                    i < j => ~Less(groups[q[j]].name, groups[q[i]].name)}}

\* a sort of data.LogicalDeviceGroups itself
SortedInPlace(stored, sorted) == sorted

\* renderDeviceGroups sorts a copy: data.LogicalDeviceGroups after the call
StoredAfter(stored, sorted) == stored

\* a view is about to be drawn
InitSort ==
    /\ authenticated = TRUE
    /\ authCookie = TRUE
    /\ healthy = TRUE
    /\ task = [t \in Tasks |-> IdleTask]
    /\ ctxDone = FALSE
    /\ running = FALSE
    /\ ticker = "nil"
    /\ dataChannel = <<>>
    /\ errorChannel = <<>>
    /\ channelsClosed = FALSE
    /\ \E gs \in GroupLists, now \in PolledTimes :
          lastData = [groups |-> gs, totalDevices |-> 2 * Len(gs),
                      lastUpdated |-> now]
    /\ errorMessage = NoErr
    /\ screen = [view |-> "blank", emitted |-> <<>>]
    /\ altScreen = TRUE
    /\ mainPc = "sort"
    /\ hist = [NoHist EXCEPT !.lastGood = lastData]

\* renderDeviceGroups(dm.lastData): "No devices found", or the groups handed
\* to renderLogicalDeviceGroup one after the other
RenderGroups ==
    /\ mainPc = "sort"
    /\ \E sorted \in SortSlice(lastData.groups) :
         /\ screen' = [view |-> IF Len(lastData.groups) = 0 THEN "message"
                                ELSE "groups",
                       emitted |-> sorted]
         /\ lastData' = [lastData EXCEPT
                           !.groups = StoredAfter(lastData.groups, sorted)]
    /\ mainPc' = "sorted"
    /\ UNCHANGED <<clientVars, healthy, task, schedVars, chanVars, errorMessage,
                   altScreen, hist>>

\* the view is drawn again
RenderGroupsAgain ==
    /\ mainPc = "sorted"
    /\ \E sorted \in SortSlice(lastData.groups) :
         /\ screen' = [view |-> IF Len(lastData.groups) = 0 THEN "message"
                                ELSE "groups",
                       emitted |-> sorted]
         /\ lastData' = [lastData EXCEPT
                           !.groups = StoredAfter(lastData.groups, sorted)]
    /\ mainPc' = "sortedAgain"
    /\ UNCHANGED <<clientVars, healthy, task, schedVars, chanVars, errorMessage,
                   altScreen, hist>>

NextSort == RenderGroups \/ RenderGroupsAgain

SpecSort == InitSort /\ [][NextSort]_vars

\* ---------------------------------------------------- simplifyErrorMessage
\* errorPatterns, a Go map: the known substrings and their short labels
errorPatterns ==
    {[pattern |-> Str(<<"c", "o", "n", "t", "e", "x", "t", " ", "d", "e",
             "a", "d", "l", "i", "n", "e", " ", "e", "x", "c", "e", "e", "d",
             "e", "d">>),
       label |-> Str(<<"C", "o", "n", "n", "e", "c", "t", "i", "o", "n", " ",
             "t", "i", "m", "e", "o", "u", "t">>)],
     [pattern |-> Str(<<"c", "o", "n", "n", "e", "c", "t", "i", "o", "n",
             " ", "r", "e", "f", "u", "s", "e", "d">>),
       label |-> Str(<<"C", "o", "n", "n", "e", "c", "t", "i", "o", "n", " ",
             "r", "e", "f", "u", "s", "e", "d">>)],
     [pattern |-> Str(<<"n", "o", " ", "s", "u", "c", "h", " ", "h", "o",
             "s", "t">>),
       label |-> Str(<<"H", "o", "s", "t", " ", "n", "o", "t", " ", "f", "o",
             "u", "n", "d">>)],
     [pattern |-> Str(<<"i", "n", "v", "a", "l", "i", "d", " ", "c", "r",
             "e", "d", "e", "n", "t", "i", "a", "l", "s">>),
       label |-> Str(<<"I", "n", "v", "a", "l", "i", "d", " ", "c", "r", "e",
             "d", "e", "n", "t", "i", "a", "l", "s">>)],
     [pattern |-> Str(<<"u", "n", "a", "u", "t", "h", "o", "r", "i", "z",
             "e", "d">>),
       label |-> Str(<<"A", "u", "t", "h", "e", "n", "t", "i", "c", "a", "t",
             "i", "o", "n", " ", "f", "a", "i", "l", "e", "d">>)],
     [pattern |-> Str(<<"f", "o", "r", "b", "i", "d", "d", "e", "n">>),
       label |-> Str(<<"A", "c", "c", "e", "s", "s", " ", "d", "e", "n", "i",
             "e", "d">>)],
     [pattern |-> Str(<<"n", "o", "t", " ", "f", "o", "u", "n", "d">>),
       label |-> Str(<<"E", "n", "d", "p", "o", "i", "n", "t", " ", "n", "o",
             "t", " ", "f", "o", "u", "n", "d">>)],
     [pattern |-> Str(<<"i", "n", "t", "e", "r", "n", "a", "l", " ", "s",
             "e", "r", "v", "e", "r", " ", "e", "r", "r", "o", "r">>),
       label |-> Str(<<"S", "e", "r", "v", "e", "r", " ", "e", "r", "r", "o",
             "r">>)],
     [pattern |-> Str(<<"b", "a", "d", " ", "g", "a", "t", "e", "w", "a",
             "y">>),
       label |-> Str(<<"B", "a", "d", " ", "g", "a", "t", "e", "w", "a",
             "y">>)],
     [pattern |-> Str(<<"s", "e", "r", "v", "i", "c", "e", " ", "u", "n",
             "a", "v", "a", "i", "l", "a", "b", "l", "e">>),
       label |-> Str(<<"S", "e", "r", "v", "i", "c", "e", " ", "u", "n", "a",
             "v", "a", "i", "l", "a", "b", "l", "e">>)],
     [pattern |-> Str(<<"n", "e", "t", "w", "o", "r", "k", " ", "i", "s",
             " ", "u", "n", "r", "e", "a", "c", "h", "a", "b", "l", "e">>),
       label |-> Str(<<"N", "e", "t", "w", "o", "r", "k", " ", "u", "n", "r",
             "e", "a", "c", "h", "a", "b", "l", "e">>)],
     [pattern |-> Str(<<"c", "e", "r", "t", "i", "f", "i", "c", "a", "t",
             "e">>),
       label |-> Str(<<"C", "e", "r", "t", "i", "f", "i", "c", "a", "t", "e",
             " ", "e", "r", "r", "o", "r">>)],
     [pattern |-> Str(<<"t", "l", "s">>),
       label |-> Str(<<"T", "L", "S", "/", "S", "S", "L", " ", "e", "r", "r",
             "o", "r">>)],
     [pattern |-> Str(<<"t", "i", "m", "e", "o", "u", "t">>),
       label |-> Str(<<"C", "o", "n", "n", "e", "c", "t", "i", "o", "n", " ",
             "t", "i", "m", "e", "o", "u", "t">>)],
     [pattern |-> Str(<<"c", "o", "n", "n", "e", "c", "t", "i", "o", "n",
             " ", "r", "e", "s", "e", "t">>),
       label |-> Str(<<"C", "o", "n", "n", "e", "c", "t", "i", "o", "n", " ",
             "r", "e", "s", "e", "t">>)],
     [pattern |-> Str(<<"b", "r", "o", "k", "e", "n", " ", "p", "i", "p",
             "e">>),
       label |-> Str(<<"C", "o", "n", "n", "e", "c", "t", "i", "o", "n", " ",
             "b", "r", "o", "k", "e", "n">>)]}

\* strings.ToLower on the ASCII letters
ToLower(s) ==
    [i \in 1..Len(s) |->
        IF IsIn(UpperCase, s[i][1])
        THEN <<LowerCase[IndexIn(UpperCase, s[i][1])], 1>> ELSE s[i]]

\* strings.Contains
Contains(s, substr) ==
    \E i \in 1..(Len(s) - Len(substr) + 1) :
        SubSeq(s, i, i + Len(substr) - 1) = substr

\* simplifyErrorMessage when no pattern matches: the last part of the message
\* cleaned, or the message itself cut to 80 bytes
LastMeaningfulPart(errorMsg) ==
    LET \* strings.Split(errorMsg, ": "): where the separators start
        separators ==
            {i \in 1..(Len(errorMsg) - 1) :
                errorMsg[i] = <<":", 1>> /\ errorMsg[i + 1] = <<" ", 1>>}
        last == CHOOSE i \in separators : \A k \in separators : k <= i
        \* parts[len(parts)-1]
        lastPart == SubSeq(errorMsg, last + 2, Len(errorMsg))
        \* strings.TrimPrefix
        TrimPrefix(s, prefix) ==
            IF Len(s) >= Len(prefix) /\ SubSeq(s, 1, Len(prefix)) = prefix
            THEN SubSeq(s, Len(prefix) + 1, Len(s)) ELSE s
        \* the loop over cleanPrefixes
        trimmed ==
            TrimPrefix(
              TrimPrefix(
                TrimPrefix(
                  TrimPrefix(lastPart,
                             Str(<<"f", "a", "i", "l", "e", "d", " ", "t", "o", " ">>)),
                  Str(<<"e", "r", "r", "o", "r", ":", " ">>)),
                Str(<<"u", "n", "a", "b", "l", "e", " ", "t", "o", " ">>)),
              Str(<<"c", "a", "n", "n", "o", "t", " ">>))
        \* strings.ToUpper(string(lastPart[0])) of an ASCII byte
        ToUpper(b) ==
            IF IsIn(LowerCase, b[1])
            THEN <<UpperCase[IndexIn(LowerCase, b[1])], 1>> ELSE b
        capitalized ==
            IF Len(trimmed) = 0 THEN trimmed
            ELSE <<ToUpper(trimmed[1])>> \o SubSeq(trimmed, 2, Len(trimmed))
        \* regexp \((.*?)\), FindStringSubmatch: the text between the first
        \* "(" and the first ")" after it
        opens == {i \in 1..Len(capitalized) : capitalized[i] = <<"(", 1>>}
        open == CHOOSE i \in opens : \A k \in opens : i <= k
        closes == {j \in 1..Len(capitalized) :
                      j > open /\ capitalized[j] = <<")", 1>>}
        close == CHOOSE j \in closes : \A k \in closes : j <= k
    IN IF separators # {}
       THEN IF opens # {} /\ closes # {}
            THEN SubSeq(capitalized, open + 1, close - 1)
            ELSE capitalized
       ELSE IF Len(errorMsg) > 80 THEN SubSeq(errorMsg, 1, 77) \o Ellipsis
       ELSE errorMsg

\* simplifyErrorMessage: the labels it can return.  The loop ranges over a
\* map, whose iteration order Go leaves unspecified: the label returned is
\* that of whichever matching pattern the loop visits first.
simplifyErrorMessage(errorMsg) ==
    LET matching ==
            {p \in errorPatterns : Contains(ToLower(errorMsg), p.pattern)}
    IN IF matching # {} THEN {p.label : p \in matching}
       ELSE {LastMeaningfulPart(errorMsg)}

\* the wrappers api_client.go and the scheduler put before a cause
ErrorWrappers ==
    {<<>>,
     Str(<<"f", "a", "i", "l", "e", "d", " ", "a", "f", "t", "e", "r", " ", "3",
           " ", "a", "t", "t", "e", "m", "p", "t", "s", ":", " ">>),
     Str(<<"f", "a", "i", "l", "e", "d", " ", "a", "f", "t", "e", "r", " ", "3",
           " ", "a", "t", "t", "e", "m", "p", "t", "s", ":", " ">>) \o
       Str(<<"f", "a", "i", "l", "e", "d", " ", "t", "o", " ", "r", "e", "-", "a",
           "u", "t", "h", "e", "n", "t", "i", "c", "a", "t", "e", ":", " ">>),
     Str(<<"l", "o", "g", "i", "n", " ", "f", "a", "i", "l", "e", "d", ":", " ">>) \o
       Str(<<"f", "a", "i", "l", "e", "d", " ", "t", "o", " ", "e", "x", "e", "c",
           "u", "t", "e", " ", "l", "o", "g", "i", "n", " ", "r", "e", "q",
           "u", "e", "s", "t", ":", " ">>)}

\* the causes: errors of the transport and of the API, some with several of
\* the known substrings, some with none, one longer than 80 bytes
ErrorCauses ==
    {Str(<<"r", "e", "m", "o", "t", "e", " ", "e", "r", "r", "o", "r", ":", " ",
           "t", "l", "s", ":", " ", "b", "a", "d", " ">>) \o
       Str(<<"c", "e", "r", "t", "i", "f", "i", "c", "a", "t", "e">>),
     Str(<<"n", "e", "t", "/", "h", "t", "t", "p", ":", " ", "T", "L", "S", " ",
           "h", "a", "n", "d", "s", "h", "a", "k", "e", " ">>) \o
       Str(<<"t", "i", "m", "e", "o", "u", "t">>),
     Str(<<"A", "P", "I", " ", "e", "r", "r", "o", "r", ":", " ", "4", "0", "1",
           " ", "u", "n", "a", "u", "t", "h", "o", "r", "i", "z", "e", "d",
           ":", " ">>) \o
       Str(<<"u", "s", "e", "r", " ", "n", "o", "t", " ", "f", "o", "u", "n", "d",
           " ", "(", "e", "n", "d", "p", "o", "i", "n", "t", ":", " ", "/",
           "l", "o", "g", "i", "n", ")">>),
     Str(<<"c", "o", "n", "t", "e", "x", "t", " ", "d", "e", "a", "d", "l", "i",
           "n", "e", " ", "e", "x", "c", "e", "e", "d", "e", "d", " ">>) \o
       Str(<<"(", "C", "l", "i", "e", "n", "t", ".", "T", "i", "m", "e", "o", "u",
           "t", " ", "e", "x", "c", "e", "e", "d", "e", "d", ")">>),
     Str(<<"d", "i", "a", "l", " ", "t", "c", "p", ":", " ", "c", "o", "n", "n",
           "e", "c", "t", ":", " ", "c", "o", "n", "n", "e", "c", "t", "i",
           "o", "n", " ">>) \o
       Str(<<"r", "e", "f", "u", "s", "e", "d">>),
     Str(<<"d", "i", "a", "l", " ", "t", "c", "p", ":", " ", "l", "o", "o", "k",
           "u", "p", " ", "p", "t", ":", " ", "n", "o", " ", "s", "u", "c",
           "h", " ">>) \o
       Str(<<"h", "o", "s", "t">>),
     Str(<<"A", "P", "I", " ", "e", "r", "r", "o", "r", ":", " ", "4", "0", "3",
           " ", "F", "o", "r", "b", "i", "d", "d", "e", "n", " ">>) \o
       Str(<<"(", "e", "n", "d", "p", "o", "i", "n", "t", ":", " ", "/", "d", "e",
           "v", "i", "c", "e", "s", ")">>),
     Str(<<"A", "P", "I", " ", "e", "r", "r", "o", "r", ":", " ", "5", "0", "0",
           " ", "I", "n", "t", "e", "r", "n", "a", "l", " ">>) \o
       Str(<<"S", "e", "r", "v", "e", "r", " ", "E", "r", "r", "o", "r", " ", "(",
           "e", "n", "d", "p", "o", "i", "n", "t", ":", " ", "/", "d", "e",
           "v", "i", "c", "e", "s", ")">>),
     Str(<<"A", "P", "I", " ", "e", "r", "r", "o", "r", ":", " ", "4", "1", "8",
           " ", "t", "e", "a", "p", "o", "t", " ">>) \o
       Str(<<"(", "e", "n", "d", "p", "o", "i", "n", "t", ":", " ", "/", "d", "e",
           "v", "i", "c", "e", "s", ")">>),
     Str(<<"n", "o", "t", " ", "a", "u", "t", "h", "e", "n", "t", "i", "c", "a",
           "t", "e", "d", " ", "-", " ", "p", "l", "e", "a", "s", "e", " ">>) \o
       Str(<<"l", "o", "g", "i", "n", " ", "f", "i", "r", "s", "t">>),
     Str(<<"n", "o", " ", "A", "u", "t", "h", "o", "r", "i", "z", "a", "t", "i",
           "o", "n", " ", "c", "o", "o", "k", "i", "e", " ">>) \o
       Str(<<"r", "e", "c", "e", "i", "v", "e", "d", " ", "f", "r", "o", "m", " ",
           "l", "o", "g", "i", "n", " ", "r", "e", "s", "p", "o", "n", "s",
           "e">>),
     Str(<<"u", "n", "e", "x", "p", "e", "c", "t", "e", "d", " ", "E", "O", "F">>),
     Str(<<"i", "n", "v", "a", "l", "i", "d", " ", "c", "h", "a", "r", "a", "c",
           "t", "e", "r", " ", "(", "a", "t", " ", "o", "f", "f", "s", "e",
           "t", " ">>) \o
       Str(<<"0", ")", " ", "i", "n", " ", "b", "o", "d", "y">>),
     Str(<<"c", "a", "n", "n", "o", "t", " ", "a", "s", "s", "i", "g", "n", " ",
           "r", "e", "q", "u", "e", "s", "t", "e", "d", " ">>) \o
       Str(<<"a", "d", "d", "r", "e", "s", "s">>),
     Repeat("x", 81)}

\* an error message is about to be drawn in the banner
InitLabel ==
    /\ authenticated = FALSE
    /\ authCookie = FALSE
    /\ healthy = FALSE
    /\ task = [t \in Tasks |-> IdleTask]
    /\ ctxDone = FALSE
    /\ running = FALSE
    /\ ticker = "nil"
    /\ dataChannel = <<>>
    /\ errorChannel = <<>>
    /\ channelsClosed = FALSE
    /\ lastData = NoData
    /\ \E wrapper \in ErrorWrappers, cause \in ErrorCauses :
          errorMessage = wrapper \o cause
    /\ screen = [view |-> "error", label |-> <<>>, again |-> <<>>]
    /\ altScreen = TRUE
    /\ mainPc = "banner"
    /\ hist = NoHist

\* renderError: the banner drawn with simplifyErrorMessage(dm.errorMessage)
RenderError ==
    /\ mainPc = "banner"
    /\ \E label \in simplifyErrorMessage(errorMessage) :
          screen' = [screen EXCEPT !.label = label]
    /\ mainPc' = "labelled"
    /\ UNCHANGED <<clientVars, healthy, task, schedVars, chanVars, lastData,
                   errorMessage, altScreen, hist>>

\* renderError at the next Render of the same error message
RenderErrorAgain ==
    /\ mainPc = "labelled"
    /\ \E label \in simplifyErrorMessage(errorMessage) :
          screen' = [screen EXCEPT !.again = label]
    /\ mainPc' = "labelledAgain"
    /\ UNCHANGED <<clientVars, healthy, task, schedVars, chanVars, lastData,
                   errorMessage, altScreen, hist>>

NextLabel == RenderError \/ RenderErrorAgain

SpecLabel == InitLabel /\ [][NextLabel]_vars

\* ------------------------------------------------------------------ claims
\* the requests of the latest FetchDevices call of goroutine t
Trace(t) == task[t].trace
TraceIs(t, n, op, status, cookie) ==
    /\ Len(Trace(t)) >= n
    /\ Trace(t)[n].op = op
    /\ Trace(t)[n].kind = "http"
    /\ Trace(t)[n].status = status
    /\ Trace(t)[n].cookie = cookie
Logins(t) == Cardinality({i \in DOMAIN Trace(t) : Trace(t)[i].op = "login"})
Requests(t) == Cardinality({i \in DOMAIN Trace(t) : Trace(t)[i].op = "devices"})

\* the re-authentication sequence of one FetchDevices call: 401, login
\* answered 200 with a session cookie, 200
ReauthAnswered(t) ==
    /\ TraceIs(t, 1, "devices", StatusUnauthorized, FALSE)
    /\ TraceIs(t, 2, "login", StatusOK, TRUE)
    /\ TraceIs(t, 3, "devices", StatusOK, FALSE)

\* C1: a FetchDevices call on an authenticated client that is answered 401,
\* then 200 with a session cookie to its re-login, then 200, has made exactly
\* one Login call and two device requests, returns the list without error and
\* leaves authenticated = true; on the way, the re-login answered 200 with a
\* cookie is never taken for a failure.
C1_ReauthOnce ==
    /\ (TraceIs(1, 1, "devices", StatusUnauthorized, FALSE)
        /\ TraceIs(1, 2, "login", StatusOK, TRUE) /\ Len(Trace(1)) = 2)
          => task[1].pc \in {"loginCheck", "request2"} /\ authenticated
    /\ ReauthAnswered(1)
          => /\ Logins(1) = 1
             /\ Requests(1) = 2
             /\ task[1].pc = "deliver"
             /\ task[1].result.ok
             /\ task[1].result.response \in AllPayloads
             /\ task[1].result.err = NoErr
             /\ authenticated

C1_Witness == ReauthAnswered(1) /\ task[1].pc = "deliver" /\ authenticated

\* FetchDevicesWithRetry has returned in goroutine t
Returned(t) == task[t].pc = "deliver"

\* C3: FetchDevicesWithRetry whose every attempt failed with a 5xx APIError or
\* a transport error has called FetchDevices exactly MaxRetries+1 times when it
\* returns its error; it never calls more often; and when it returns a result,
\* the successful call is its last one (every call before it failed).
C3_RetryCount ==
    \A t \in Tasks :
        /\ task[t].calls <= MaxRetries + 1
        /\ (Returned(t) /\ ~task[t].result.ok /\ task[t].transientOnly)
              => task[t].calls = MaxRetries + 1 /\ task[t].result.err # NoErr
        /\ (Returned(t) /\ task[t].result.ok)
              => task[t].calls = task[t].attempt + 1

C3_Witness ==
    /\ Returned(1) /\ ~task[1].result.ok /\ task[1].transientOnly
    /\ task[1].calls = MaxRetries + 1

\* C4: once an attempt has failed because of a client-error status (400-499
\* other than 401), whichever request of the attempt it answered,
\* FetchDevicesWithRetry calls FetchDevices no more.
C4_NoAttemptAfterClientError ==
    \A t \in Tasks :
        task[t].clientErrAt # None => task[t].calls = task[t].clientErrCalls

\* C7: the retained snapshot is the data of the latest Render without error
\* (absent if there was none), and a Render with an error keeps the snapshot
\* and draws it, with its own LastUpdated time, under the error banner.
C7_ErrorRenderStep ==
    (mainPc = "runOnce" /\ task[1].pc = "deliver" /\ ~task[1].result.ok
     /\ task'[1].pc = "idle")
       => /\ lastData' = lastData
          /\ screen'.view = "error"
          /\ screen'.banner = task[1].result.err
          /\ screen'.body = lastData
          /\ screen'.lastKnown = lastData.lastUpdated

C7_Snapshot == [](lastData = hist.lastGood) /\ [][C7_ErrorRenderStep]_vars

C7_Witness ==
    /\ screen.view = "error"
    /\ lastData # NoData
    /\ screen.body = lastData
    /\ hist.lastGood.devices = "listB"

\* C2: once a re-login inside FetchDevices has failed and the server has
\* recovered for good, the polling scheduler gets an authenticated session
\* again (it has to, before a poll can obtain a device list).
C2_SessionRecovers ==
    (hist.reloginFailed /\ healthy /\ mainPc = "loop") ~> authenticated

\* the retry policy resolved a failure inside goroutine t: its first attempt
\* failed and a later one succeeded
Resolved(t) == Returned(t) /\ task[t].result.ok /\ task[t].attempt > 0

\* goroutine t leaves the final select of fetchData
Leaves(t) == task[t].pc = "deliver" /\ task'[t].pc # "deliver"

\* the coordinator takes a value from the success channel
TakesData == dataChannel # <<>> /\ dataChannel' = Tail(dataChannel)
\* the coordinator takes a value from the failure channel
TakesError == errorChannel # <<>> /\ errorChannel' = Tail(errorChannel)

\* C5 as claimed: a goroutine whose retry policy resolved a failure always
\* hands over its value, on the success channel.
C5_AlwaysDelivered ==
    [][\A t \in Tasks :
          (Resolved(t) /\ Leaves(t))
             => dataChannel' = Append(dataChannel, task[t].result.response)]_vars

\* C5 amended: a goroutine whose retry policy resolved a failure never sends
\* on the failure channel; it hands over exactly one value, on the success
\* channel, unless the context is cancelled before the hand-over; and every
\* value the coordinator takes from the success channel is drawn as that data
\* without an error banner.
C5_Step ==
    /\ \A t \in Tasks :
          (Resolved(t) /\ Leaves(t))
             => /\ errorChannel' = errorChannel
                /\ ~ctxDone => dataChannel' = Append(dataChannel, task[t].result.response)
                /\ dataChannel' \in {dataChannel,
                                     Append(dataChannel, task[t].result.response)}
    /\ TakesData
          => /\ screen'.view = "devices"
             /\ screen'.banner = NoErr
             /\ screen'.body.devices = Head(dataChannel)
             /\ errorMessage' = NoErr
             /\ lastData' = screen'.body

C5_ResolvedRetryNotShown == [][C5_Step]_vars

C5_Witness ==
    \E t \in Tasks : Resolved(t) /\ ~ctxDone /\ dataChannel = <<>> /\ mainPc = "loop"

\* C6: taking a failed fetch result, the coordinator draws the error over the
\* retained view and stays in its loop, running, with the ticker armed; the
\* loop is left only once the context is cancelled.
C6_Step ==
    (mainPc = "loop" /\ TakesError)
       => /\ mainPc' = "loop"
          /\ running'
          /\ ticker' = "armed"
          /\ screen'.view = "error"
          /\ screen'.banner = Head(errorChannel)
          /\ screen'.body = lastData
          /\ lastData' = lastData

C6_FailureNotFatal ==
    /\ [][C6_Step]_vars
    /\ [](mainPc = "loop" => running /\ ticker = "armed")
    /\ [](mainPc \in {"returned", "exited"} => ctxDone)

C6_Witness ==
    /\ mainPc = "loop" /\ errorMessage # NoErr /\ screen.view = "error"
    /\ \E t \in Tasks : task[t].pc = "fetchData"

\* C8: when the scheduler had switched to full-screen mode, RestoreTerminal has
\* run exactly once by the time the process exits.
C8_RestoredOnce == (mainPc = "exited" /\ hist.fullScreen) => hist.restores = 1

\* the coordinator handles a tick, a success result or a failure result
LoopHandles ==
    /\ mainPc = "loop"
    /\ \/ TakesData
       \/ TakesError
       \/ \E t \in Tasks : task[t].pc = "idle" /\ task'[t].pc = "fetchData"

\* C9: once the context is cancelled the coordinator handles no further tick,
\* success result or failure result.
C9_CancellationWins == [][ctxDone => ~LoopHandles]_vars

\* C10: Stop on a scheduler that is not running leaves the context alone, and
\* a Start that follows still runs; Stop calls on a running scheduler cancel
\* the context once and for all, and cleanup runs at most once.
C10_Step ==
    /\ ~running => ctxDone' = ctxDone
    /\ ctxDone => ctxDone'
    /\ (mainPc = "start" /\ mainPc' = "loop" /\ hist.idleStop)
          => running' /\ ~ctxDone' /\ \E t \in Tasks : task'[t].pc = "fetchData"

C10_StopIdempotent == [][C10_Step]_vars /\ [](hist.cleanups <= 1)

C10_Witness == mainPc = "start" /\ hist.idleStop /\ ~ctxDone /\ ~running

\* C11: no FetchDevices call fails with "not authenticated" while another
\* call is between clearing the authenticated flag and the end of a re-login
\* that succeeds: a goroutine whose re-login has succeeded was overlapped by
\* no such failure.
C11_NoUnauthDuringReauth ==
    \A u \in Tasks : task[u].pc = "request2" => u \notin hist.sawUnauth

\* C12: once the context is cancelled, every fetchData goroutine ends (or the
\* process does); in particular one that holds a result it cannot deliver
\* because the channel is full waits no longer.
C12_TasksEnd ==
    \A t \in Tasks :
        (ctxDone /\ task[t].pc # "idle") ~> (task[t].pc = "idle" \/ ~Alive)

C12_Witness ==
    \E t \in Tasks :
        /\ ctxDone /\ Alive /\ ~channelsClosed
        /\ task[t].pc = "deliver" /\ task[t].result.ok
        /\ Len(dataChannel) = ChannelCap

\* the scheduler has never been started: no full-screen switch, no ticker,
\* no fetchData goroutine, nothing sent or drawn
NeverStarted ==
    /\ ~hist.fullScreen /\ ~altScreen
    /\ ~running /\ ticker = "nil"
    /\ \A t \in Tasks : task[t].pc = "idle"
    /\ dataChannel = <<>> /\ errorChannel = <<>>
    /\ screen = Blank

\* C13: a failed startup login or connection test makes the application
\* restore the terminal and abort with the error, the scheduler never having
\* been started; the scheduler is started only with the test passed; and the
\* abort is reached from the failed startup test only.
C13_Step ==
    /\ mainPc' = "fatal" => mainPc \in {"runFailed", "fatal"}
    /\ mainPc' = "runFailed"
          => mainPc \in {"testLogin", "testRequest", "testRelogin", "runFailed"}
    /\ (mainPc = "runFailed" /\ mainPc' # mainPc)
          => mainPc' = "fatal" /\ hist'.restores = hist.restores + 1

C13_StartupFailure ==
    /\ [](mainPc = "runFailed" => NeverStarted /\ hist.restores = 0)
    /\ [](mainPc = "fatal" => NeverStarted /\ hist.restores = 1)
    /\ [](mainPc = "start" => authenticated /\ authCookie)
    /\ [][C13_Step]_vars

C13_Witness == mainPc = "fatal" /\ hist.restores = 1 /\ ~authenticated

\* the list that was grouped and the groups made of it
Input == Head(dataChannel)
Groups == lastData.groups
Members(g) == Groups[g].physicalDevices
\* the number of times device d is a member of group g
Occurs(d, g) == Cardinality({k \in DOMAIN Members(g) : Members(g)[k] = d})
RECURSIVE SumSizes(_)
SumSizes(n) == IF n = 0 THEN 0 ELSE SumSizes(n - 1) + Len(Members(n))

\* C14: the groups partition the device list: every device is a member of
\* exactly one group, once, and that group carries the device's logical id;
\* no two groups carry the same logical id; the group sizes sum to the number
\* of devices, which is TotalDevices.
C14_Partition ==
    mainPc = "grouped" =>
        /\ \A i \in DOMAIN Input :
              \E g \in DOMAIN Groups :
                  /\ Occurs(Input[i], g) = 1
                  /\ Groups[g].logicalDevice.id = Input[i].lid
                  /\ \A h \in DOMAIN Groups : h # g => Occurs(Input[i], h) = 0
        /\ \A g, h \in DOMAIN Groups :
              g # h => Groups[g].logicalDevice.id # Groups[h].logicalDevice.id
        /\ SumSizes(Len(Groups)) = Len(Input)
        /\ lastData.totalDevices = Len(Input)

C14_Witness ==
    /\ mainPc = "grouped" /\ Len(Input) = 3 /\ Len(Groups) = 2
    /\ \E g \in DOMAIN Groups : Len(Members(g)) = 2

\* C15: a group's cluster flag is true exactly when its topology type is
\* active-standby, and a group whose flag is false has no ActiveNode and no
\* StandbyNodes whatever roles its members carry.
C15_ClusterFlag ==
    mainPc = "grouped" =>
        \A g \in DOMAIN Groups :
            /\ Groups[g].isCluster
                  <=> Groups[g].logicalDevice.topo = "TOPOLOGY_TYPE_ACTIVE_STANDBY"
            /\ ~Groups[g].isCluster
                  => Groups[g].activeNode = NoDevice /\ Groups[g].standbyNodes = <<>>

\* the members of group g with the given role, in fetch order
RECURSIVE WithRole(_, _)
WithRole(members, role) ==
    IF members = <<>> THEN <<>>
    ELSE IF Head(members).role = role
    THEN <<Head(members)>> \o WithRole(Tail(members), role)
    ELSE WithRole(Tail(members), role)

\* C16: in a clustered group the member designated active is the first
\* member in fetch order whose role is active (none if there is no such
\* member), and StandbyNodes is the members whose role is standby, in fetch
\* order.
C16_FirstActive ==
    mainPc = "grouped" =>
        \A g \in DOMAIN Groups :
            Groups[g].isCluster =>
               LET active == WithRole(Members(g), "ACTIVE_STANDBY_ROLE_ACTIVE")
               IN /\ Groups[g].activeNode =
                        IF active = <<>> THEN NoDevice ELSE Head(active)
                  /\ Groups[g].standbyNodes =
                        WithRole(Members(g), "ACTIVE_STANDBY_ROLE_STANDBY")

\* the number of visible characters of a text made of the given pieces
RECURSIVE VisibleChars(_)
VisibleChars(tokens) ==
    IF tokens = <<>> THEN 0
    ELSE VisibleChars(Tail(tokens))
         + (CASE Head(tokens) = "ABCD" -> 4
              [] Head(tokens) \in {"A", "e-acute"} -> 1
              [] OTHER -> 0)

\* C17: the displayWidth of a string made only of ANSI escape sequences and
\* visible characters is the number of its visible characters.
C17_VisibleWidth ==
    mainPc = "measured" => screen.measured = VisibleChars(screen.tokens)

\* C18: truncating a truncated string to the same width returns it unchanged.
C18_TruncateIdempotent ==
    mainPc = "truncatedAgain" => screen.again = screen.out

C18_Witness ==
    /\ mainPc = "truncatedAgain"
    /\ screen.width > 3
    /\ screen.out # screen.text
    /\ screen.tokens = <<"red", "e-acute", "ABCD">>

\* C19: the visible width of every device line, borders included, is the
\* terminal width.
C19_RowFits ==
    mainPc = "rowDrawn" => displayWidth(screen.line) = screen.termWidth

\* the request repeated after a re-login answered 200 with a cookie was
\* answered 401 again
RetriedUnauthorized(t) ==
    /\ TraceIs(t, 1, "devices", StatusUnauthorized, FALSE)
    /\ TraceIs(t, 2, "login", StatusOK, TRUE)
    /\ TraceIs(t, 3, "devices", StatusUnauthorized, FALSE)

\* C20: a FetchDevices call makes at most one Login and at most two device
\* requests, whatever the server answers; when the request repeated after the
\* re-login is answered 401 again, the call has returned that failure
\* ("failed after re-authentication", status 401) and made nothing further.
C20_BoundedReauth ==
    /\ Logins(1) <= 1
    /\ Requests(1) <= 2
    /\ Len(Trace(1)) <= 3
    /\ task[1].pc \in {"login", "loginCheck"} => Len(Trace(1)) <= 2
    /\ task[1].pc = "request2" => Len(Trace(1)) = 2
    /\ RetriedUnauthorized(1)
          => /\ task[1].pc \in {"retry", "deliver"}
             /\ task[1].lastErr = Err(FALSE, StatusUnauthorized, "after re-authentication")
             /\ ~task[1].result.ok
             /\ Len(Trace(1)) = 3

C20_Witness ==
    /\ RetriedUnauthorized(1)
    /\ task[1].pc = "retry"
    /\ task[1].calls = 1

\* the answer to the Login call that has returned
LoginAnswer == Trace(1)[1]
GotCookie(a) == a.kind = "http" /\ a.status = StatusOK /\ a.cookie

\* C21: Login returns success only if its response is 200 with a session
\* cookie; on any other response it returns an error and the session is not
\* authenticated, whatever the session state was when it was called.
C21_LoginVerdict ==
    task[1].pc = "loginReturned"
       => /\ task[1].lastErr = NoErr => GotCookie(LoginAnswer)
          /\ ~GotCookie(LoginAnswer) => task[1].lastErr # NoErr

\* the "not authenticated" error of FetchDevices
NotAuthErr == Err(FALSE, 0, "not authenticated")

\* a FetchDevices call starts in this step
CallStarts == task[1].pc = "retry" /\ task'[1].calls = task[1].calls + 1

\* C22: FetchDevices called on an unauthenticated client returns the "not
\* authenticated" error, sends no request (no device request, no login) and
\* leaves the session state unchanged.
C22_UnauthenticatedFetch ==
    [][(CallStarts /\ ~authenticated)
          => /\ task'[1].trace = <<>>
             /\ task'[1].lastErr = NotAuthErr
             /\ task'[1].pc \in {"retry", "deliver"}
             /\ authenticated' = authenticated
             /\ authCookie' = authCookie]_vars

C22_Witness ==
    /\ mainPc = "client"
    /\ task[1].pc = "fetchReturned"
    /\ task[1].lastErr = NotAuthErr
    /\ task[1].trace = <<>>
    /\ ~authenticated /\ authCookie

\* the requests recorded in this step
NewSent ==
    IF task[1].pc \in {"login", "loginCheck", "request2", "testRelogin"}
    THEN SubSeq(task'[1].trace, Len(task[1].trace) + 1, Len(task'[1].trace))
    ELSE task'[1].trace

FlagUp ==
    (~authenticated /\ authenticated')
       => \E i \in DOMAIN NewSent : NewSent[i].op = "login" /\ GotCookie(NewSent[i])

FlagDown ==
    (authenticated /\ ~authenticated')
       => \/ task'[1].pc = "logoutReturned"
          \/ \E i \in DOMAIN NewSent :
                /\ NewSent[i].op \in {"devices", "test"}
                /\ NewSent[i].kind = "http"
                /\ NewSent[i].status = StatusUnauthorized

\* C23: authenticated turns true only in a Login answered 200 with a session
\* cookie, turns false only on a 401 seen by FetchDevices or TestConnection
\* or in Logout, and whenever it is true a session cookie is stored.
C23_ExplicitTransitions ==
    /\ [](authenticated => authCookie)
    /\ [][FlagUp /\ FlagDown]_vars

C23_Witness ==
    /\ task[1].pc = "testReturned"
    /\ Len(Trace(1)) = 3
    /\ authenticated
    /\ task[1].lastErr # NoErr

\* C24: the attempt count named in the error FetchDevicesWithRetry returns is
\* the number of FetchDevices calls it made.
C24_NamedAttempts ==
    (Returned(1) /\ ~task[1].result.ok) => NamedAttempts = task[1].calls

\* C25: FetchDevicesWithRetry sleeps not at all before its first attempt and
\* k seconds right before its k-th retry, and never after its last attempt:
\* after c attempts the sleeps of the call are 1, 2, ..., c-1.
C25_LinearBackoff ==
    LET w == task[1].waits
        c == task[1].calls
    IN /\ Len(w) = (IF c = 0 THEN 0 ELSE c - 1)
       /\ \A k \in DOMAIN w : w[k] = k

C25_Witness ==
    /\ Returned(1)
    /\ ~task[1].result.ok
    /\ task[1].waits = <<1, 2>>

\* C26: when Start has returned, the ticker is stopped and running is false,
\* whether a signal or Stop ended the loop.
C26_StoppedOnReturn ==
    mainPc = "returned" => (~running /\ ticker = "stopped")

\* C27: a fetchData that starts after the cancellation does nothing (no
\* request, no send), and a fetchData that is running does not start another
\* attempt once its backoff sleep began with the cancellation signalled.
C27_CooperativeCancel ==
    /\ [][\A t \in Tasks :
            (ctxDone /\ task[t].pc = "fetchData" /\ task'[t] # task[t])
               => /\ task'[t] = IdleTask
                  /\ UNCHANGED <<clientVars, chanVars>>]_vars
    /\ [][\A t \in Tasks :
            (ctxDone /\ task[t].pc = "retry" /\ task[t].attempt > 0)
               => task'[t].calls <= task[t].calls]_vars

\* the fetchData goroutines alive
InFlight == {t \in Tasks : task[t].pc # "idle"}

\* C28: Start launches one fetchData before its loop (before any tick is
\* handled); every tick handled launches one more; a launch leaves the
\* goroutines in flight as they are.
C28_LaunchPerTick ==
    /\ [][(mainPc = "start" /\ mainPc' = "loop")
             => /\ InFlight = {}
                /\ \E t \in Tasks : InFlight' = {t} /\ task'[t] = NewTask]_vars
    /\ [][HandleTick
             => /\ mainPc = "loop" /\ running
                /\ Cardinality(InFlight') = Cardinality(InFlight) + 1]_vars
    /\ [][\A t \in Tasks :
            (task[t].pc = "idle" /\ task'[t].pc # "idle")
               => /\ task'[t] = NewTask
                  /\ \A u \in Tasks \ {t} : task'[u] = task[u]]_vars

C28_Witness ==
    /\ mainPc = "loop"
    /\ task[1].pc = "request2"
    /\ task[2].pc = "retry"
    /\ task[2].calls = 1

\* C29: the display fields and what is drawn change only in a step of the
\* coordinating loop that takes one value off one result channel and moves no
\* fetchData; a value enters a result channel only when one fetchData sends
\* it and ends, on one channel.
C29_SingleWriter ==
    /\ [][(lastData' # lastData \/ errorMessage' # errorMessage \/ screen' # screen)
             => /\ mainPc = "loop"
                /\ task' = task
                /\ \/ (dataChannel # <<>> /\ dataChannel' = Tail(dataChannel)
                       /\ errorChannel' = errorChannel)
                   \/ (errorChannel # <<>> /\ errorChannel' = Tail(errorChannel)
                       /\ dataChannel' = dataChannel)]_vars
    /\ [][(Len(dataChannel') > Len(dataChannel) \/ Len(errorChannel') > Len(errorChannel))
             => /\ Len(dataChannel') + Len(errorChannel')
                      = Len(dataChannel) + Len(errorChannel) + 1
                /\ (dataChannel' = dataChannel \/ errorChannel' = errorChannel)
                /\ UNCHANGED <<lastData, errorMessage, screen>>
                /\ \E t \in Tasks :
                      /\ task[t].pc = "deliver"
                      /\ task'[t].pc = "idle"
                      /\ \A u \in Tasks \ {t} : task'[u] = task[u]]_vars

C29_Witness ==
    /\ mainPc = "loop"
    /\ screen.view = "devices"
    /\ Len(errorChannel) = 1
    /\ \E t \in Tasks : task[t].pc = "deliver" /\ task[t].result.ok

\* C30: GroupDevicesByLogicalDevice applied twice to the same device list
\* gives the same groups in the same order, with the same members and the
\* same active and standby nodes (LastUpdated aside).
C30_Deterministic ==
    mainPc = "groupedAgain" =>
        /\ lastData.groups = hist.lastGood.groups
        /\ lastData.totalDevices = hist.lastGood.totalDevices

\* the place of a logical-device name in ascending case-sensitive order:
\* "FW" < "alpha" < "fw" < "fw-2"
NameRank(name) ==
    CASE name = Str(<<"F", "W">>) -> 1
      [] name = Str(<<"a", "l", "p", "h", "a">>) -> 2
      [] name = Str(<<"f", "w">>) -> 3
      [] name = Str(<<"f", "w", "-", "2">>) -> 4

\* C31: whatever the order of the stored groups, renderDeviceGroups hands the
\* groups on in ascending case-sensitive order of their names, each group
\* once and with its members as stored, and leaves the stored list as it was.
C31_SortedDisplay ==
    mainPc \in {"sorted", "sortedAgain"} =>
        LET out == screen.emitted
            stored == hist.lastGood.groups
        IN /\ \A i, j \in DOMAIN out :
                 i < j => NameRank(out[i].name) <= NameRank(out[j].name)
           /\ Len(out) = Len(stored)
           /\ \A g \in DOMAIN stored :
                 Cardinality({i \in DOMAIN out : out[i] = stored[g]}) = 1
           /\ lastData = hist.lastGood

C31_Witness ==
    /\ mainPc = "sortedAgain"
    /\ Len(lastData.groups) = 3
    /\ lastData.groups[1].name = Str(<<"f", "w">>)
    /\ lastData.groups[2].name = Str(<<"a", "l", "p", "h", "a">>)
    /\ lastData.groups[3].name = Str(<<"F", "W">>)
    /\ screen.emitted[1].id = 3

\* the first k characters of a string without escape sequences
RunePrefix(bs, k) ==
    LET starts == {i \in 1..Len(bs) : ~Absorbed(bs, i)}
    IN IF Cardinality(starts) <= k THEN bs
       ELSE SubSeq(bs, 1, Nth(starts, k + 1) - 1)

\* the colour codes of the input that stand before its k-th visible character
\* ends: those of the shortest prefix that shows k characters
CodesBefore(bs, k) ==
    LET enough == {i \in 0..Len(bs) : displayWidth(SubSeq(bs, 1, i)) >= k}
    IN FindAllString(SubSeq(bs, 1, Nth(enough, 1)))

\* C32: a string wider than a column budget n > 3 is cut to its first n-3
\* visible characters followed by "...", so that its visible width is n; the
\* colour codes before the cut are kept in order and the result ends with a
\* reset code.
C32_CutToBudget ==
    (mainPc = "truncated" /\ screen.width > 3
     /\ displayWidth(screen.text) > screen.width)
       => LET out == screen.out
              n == screen.width
              codes == FindAllString(out)
              before == CodesBefore(screen.text, n - 3)
          IN /\ displayWidth(out) = n
             /\ stripColors(out) = RunePrefix(stripColors(screen.text), n - 3) \o Ellipsis
             /\ Len(codes) > Len(before)
             /\ SubSeq(codes, 1, Len(before)) = before
             /\ codes[Len(codes)] = ColorReset
             /\ SubSeq(out, Len(out) - Len(ColorReset) + 1, Len(out)) = ColorReset

\* C33: calculateColumnWidths returns seven widths, none below its base
\* width; the tree column keeps its width; each other column gets its share
\* (in tenths) of the width the terminal has beyond the base widths, and of
\* nothing else.
C33_BaseMinimum ==
    mainPc = "rowDrawn" =>
        LET w == screen.colWidths
            surplus == screen.termWidth - TotalBase(Len(BaseWidths))
            spread == IF surplus > 0 THEN surplus ELSE 0
        IN /\ Len(w) = Len(BaseWidths)
           /\ \A i \in DOMAIN w : w[i] >= BaseWidths[i]
           /\ w[1] = BaseWidths[1]
           /\ \A i \in DOMAIN w : w[i] = BaseWidths[i] + (spread * Tenths[i]) \div 10

\* C34: no fetch task sends on a closed result channel: a task that reaches
\* its final select after cleanup has closed the channels never takes the
\* send case, so the program never ends in the send-on-closed-channel fault.
C34_NoSendOnClosed ==
    mainPc # "panicked"

\* C35: the label of the error banner is a function of the error message:
\* two renders of the same message show the same label, also when the message
\* contains several of the known substrings.
C35_SameLabel ==
    mainPc = "labelledAgain" => screen.again = screen.label

====
